---------------------------- MODULE Spec2Model ----------------------------
(***************************************************************************)
(* Verification model of the LanceDB destination of dlt                    *)
(* (dlt/destinations/impl/lancedb/lancedb_client.py) and of the Postgres   *)
(* load jobs (dlt/destinations/impl/postgres/postgres.py).                 *)
(*                                                                         *)
(* The module holds several specifications over one set of variables; each *)
(* specification drives one part of the client and leaves the variables of *)
(* the other parts at their initial value:                                 *)
(*   SpecTypes   LanceDBTypeMapper (to_db_type / from_db_type)             *)
(*   SpecLoad    LanceDBLoadJob.run and write_records on one data table    *)
(*   SpecWrite   one write_records call with arbitrary arguments           *)
(*   SpecOrphans LanceDBRemoveOrphansJob.run on a lineage of batch files   *)
(*   SpecSchema  update_stored_schema and the stored schema lookups         *)
(*   SpecState   pipeline state rows, complete_load and get_stored_state    *)
(*   SpecBookkeeping the record writes under every declared disposition  *)
(*   SpecStorage initialize_storage, drop_storage, is_storage_initialized  *)
(*   SpecLookups get_stored_schema, get_stored_schema_by_hash and         *)
(*               get_stored_state on datasets with and without matches     *)
(*   SpecRelation limit, head, select and query of ReadableDBAPIRelation   *)
(*               (dlt/destinations/dataset.py)                             *)
(*   SpecUpgrade update_stored_schema on a store that can stop answering   *)
(*   SpecRootFiles LanceDBRemoveOrphansJob.run on two root batch files     *)
(*   SpecFollowup create_table_chain_completed_followup_jobs               *)
(*   SpecCreateJob PostgresClient.create_load_job                          *)
(*   SpecCsvCopy PostgresCsvCopyJob.run                                    *)
(*   SpecGeometryInsert PostgresInsertValuesWithGeometryTypesLoadJob       *)
(*   SpecReplace a replace seen by a concurrent reader: the LanceDB load   *)
(*               job, or the Postgres staging replace job                  *)
(***************************************************************************)
EXTENDS Integers, Sequences, FiniteSets, TLC

VARIABLES
    tm_caps,      \* capabilities.timestamp_precision of the type mapper
    tm_col,       \* the logical column handed to the type mapper
    tm_native,    \* result of to_db_type(tm_col)
    tm_back,      \* result of from_db_type(tm_native)
    tm_pc,        \* position of the mapping run: "start", "mapped", "done"
    db,           \* the LanceDB database: qualified table name -> table
    merge_build,  \* what the LanceDB build does on an ambiguous merge
    ld_job,       \* the load job: file, disposition, state, runs, last outcome
    ld_old,       \* the target table as it was before the job's first run
    ld_first,     \* the target table right after the job's first applied write
    ld_seen,      \* what a concurrent reader of the target table last saw
    pg,           \* the Postgres database: <<dataset, table>> -> table
    pg_job,       \* the staging replace job: its table chain and its state
    pg_old,       \* the Postgres database before the staging replace job
    pg_seen,      \* what a concurrent reader of each destination table last saw
    or_files,     \* the batch files of the load: path -> table name, schema, rows
    or_job,       \* the orphan-removal job: references, position, state, writes
    or_old,       \* the database before the orphan-removal job
    schema,       \* the client's logical schema (self.schema)
    now,          \* the clock pendulum.now() reads
    ss_calls,     \* the update_stored_schema calls made in a row, newest last
    st_seen,      \* the last get_stored_state call: pipeline, outcome, call parity
    wr,           \* one write_records call: its arguments and its outcome
    rel,          \* a readable relation, the last call on it and its result
    sg,           \* the last storage call: initialize, drop or the initialized test
    lk,           \* the last lookup of a stored schema or state and its result
    fu,           \* a completed table chain and the follow-up jobs asked for it
    pj            \* a call on the Postgres client or on one of its load jobs

tmVars == <<tm_caps, tm_col, tm_native, tm_back, tm_pc>>
ldVars == <<ld_job, ld_old, ld_first, ld_seen>>
pgVars == <<pg, pg_job, pg_old, pg_seen>>
vars == <<tm_caps, tm_col, tm_native, tm_back, tm_pc, db, merge_build,
          ld_job, ld_old, ld_first, ld_seen, pg, pg_job, pg_old, pg_seen,
          or_files, or_job, or_old, schema, now, ss_calls, st_seen, wr, rel, sg, lk,
          fu, pj>>
orVars == <<or_files, or_job, or_old>>
scVars == <<schema, now, ss_calls>>
stVars == <<st_seen>>
wrVars == <<wr, rel>>
sgVars == <<sg, lk>>
fnVars == <<fu, pj>>
\* the variables a part of the model leaves alone
othersOfTypes == <<db, merge_build, ldVars, pgVars, orVars, scVars, stVars, fnVars, wrVars, sgVars>>
othersOfLoad == <<tmVars, pgVars, orVars, scVars, stVars, fnVars, wrVars, sgVars>>
othersOfPg == <<tmVars, db, merge_build, ldVars, orVars, scVars, stVars, fnVars, wrVars, sgVars>>
othersOfOrphans == <<tmVars, merge_build, ldVars, pgVars, scVars, stVars, fnVars, wrVars, sgVars>>
othersOfSchema == <<tmVars, merge_build, ldVars, pgVars, orVars, stVars, fnVars, wrVars, sgVars>>
othersOfState == <<tmVars, merge_build, ldVars, pgVars, orVars, scVars, wrVars, sgVars, fnVars>>
othersOfWrite == <<tmVars, db, ldVars, pgVars, orVars, scVars, stVars, fnVars, rel, sgVars>>
othersOfRelation == <<tmVars, db, merge_build, ldVars, pgVars, orVars, scVars, stVars, fnVars, wr, sgVars>>

\* Python's None for optional integers and optional strings.
None == -1
NoneStr == "None"

(***************************************************************************)
(* LanceDBTypeMapper                                                       *)
(***************************************************************************)

\* TIMESTAMP_PRECISION_TO_UNIT
TIMESTAMP_PRECISION_TO_UNIT ==
    [p \in {0, 3, 6, 9} |->
        CASE p = 0 -> "s" [] p = 3 -> "ms" [] p = 6 -> "us" [] OTHER -> "ns"]

\* UNIT_TO_TIMESTAMP_PRECISION, the inverse dictionary
UNIT_TO_TIMESTAMP_PRECISION ==
    [u \in {"s", "ms", "us", "ns"} |->
        CHOOSE p \in {0, 3, 6, 9} : TIMESTAMP_PRECISION_TO_UNIT[p] = u]

\* Destination capabilities consumed by the mapper.
DecimalDefaultPrecision == 38
DecimalDefaultScale == 18
WeiPrecision == 38
WeiScale == 0

\* An Arrow data type: kind, unit (timestamp / time64), precision and scale
\* (decimal128).  Unused attributes hold "" and None.
ArrowType(k, u, p, s) == [k |-> k, unit |-> u, p |-> p, s |-> s]
PaString == ArrowType("string", "", None, None)
PaFloat64 == ArrowType("float64", "", None, None)
PaBool == ArrowType("bool", "", None, None)
PaInt64 == ArrowType("int64", "", None, None)
PaBinary == ArrowType("binary", "", None, None)
PaDate32 == ArrowType("date32", "", None, None)
\* What a failed mapping leaves: to_db_type raised instead of returning a type.
PaKeyError == ArrowType("KeyError", "", None, None)
PaValueError == ArrowType("ValueError", "", None, None)

\* sct_to_unbound_dbt
SctToUnboundDbtKeys == {"text", "double", "bool", "bigint", "binary", "date", "complex"}
sct_to_unbound_dbt ==
    [t \in SctToUnboundDbtKeys |->
        CASE t = "text" -> PaString
          [] t = "double" -> PaFloat64
          [] t = "bool" -> PaBool
          [] t = "bigint" -> PaInt64
          [] t = "binary" -> PaBinary
          [] t = "date" -> PaDate32
          [] OTHER -> PaString]

\* dbt_to_sct.get(db_type, "text") of the base from_db_type
dbt_to_sct(db_type) ==
    CASE db_type = PaString -> "text"
      [] db_type = PaFloat64 -> "double"
      [] db_type = PaBool -> "bool"
      [] db_type = PaInt64 -> "bigint"
      [] db_type = PaBinary -> "binary"
      [] db_type = PaDate32 -> "date"
      [] OTHER -> "text"

\* TypeMapper.decimal_precision: missing precision / scale take the defaults
decimal_precision(precision, scale) ==
    <<IF precision # None THEN precision ELSE DecimalDefaultPrecision,
      IF scale # None THEN scale ELSE DecimalDefaultScale>>

\* a mapper that drops the declared precision and scale
to_db_decimal_type_defaults(precision, scale) ==
    ArrowType("decimal128", "", DecimalDefaultPrecision, DecimalDefaultScale)

to_db_decimal_type(precision, scale) ==
    LET ps == decimal_precision(precision, scale)
    IN  ArrowType("decimal128", "", ps[1], ps[2])

\* the column's own precision is not consulted
to_db_datetime_type(caps, precision) ==
    ArrowType("timestamp", TIMESTAMP_PRECISION_TO_UNIT[caps], None, None)

\* pa.time64 accepts the units "us" and "ns" only
to_db_time_type(caps, precision) ==
    LET unit == TIMESTAMP_PRECISION_TO_UNIT[caps]
    IN  IF unit \in {"us", "ns"}
        THEN ArrowType("time64", unit, None, None)
        ELSE PaValueError

\* TypeMapper.to_db_type: the overridden hooks first, then the unbound table
to_db_type(caps, column) ==
    CASE column.data_type = "timestamp" -> to_db_datetime_type(caps, column.precision)
      [] column.data_type = "time" -> to_db_time_type(caps, column.precision)
      [] column.data_type = "decimal" -> to_db_decimal_type(column.precision, column.scale)
      [] column.data_type \in SctToUnboundDbtKeys -> sct_to_unbound_dbt[column.data_type]
      [] OTHER -> PaKeyError

ColumnType(t, p, s) == [data_type |-> t, precision |-> p, scale |-> s]

NoColumn == ColumnType("", None, None)

\* the type mapper before any mapping run
TypesIdle ==
    /\ tm_native = PaKeyError
    /\ tm_back = NoColumn
    /\ tm_pc = "start"

\* LanceDBTypeMapper.from_db_type
from_db_type(db_type, precision, scale) ==
    CASE db_type.k = "timestamp" ->
            ColumnType("timestamp", UNIT_TO_TIMESTAMP_PRECISION[db_type.unit], scale)
      [] db_type.k = "time64" ->
            ColumnType("time", UNIT_TO_TIMESTAMP_PRECISION[db_type.unit], scale)
      [] db_type.k = "decimal128" ->
            IF <<db_type.p, db_type.s>> = <<WeiPrecision, WeiScale>>
            THEN ColumnType("wei", None, None)
            ELSE ColumnType("decimal", db_type.p, db_type.s)
      [] OTHER -> ColumnType(dbt_to_sct(db_type), precision, scale)

(***************************************************************************)
(* The LanceDB store, as the client uses it                                *)
(***************************************************************************)

\* config.dataset_separator, the client's dataset name, config.id_field_name,
\* config.vector_field_name and config.sentinel_table_name
dataset_separator == "___"
dataset_name == "ds"
id_field_name == "id__"
vector_field_name == "vector__"
sentinel_table_name == "dltSentinelTable"

\* A table name is a sequence of name parts; the qualified name puts the
\* dataset name and the separator in front of it.
make_qualified_table_name(table_name) ==
    IF dataset_name # ""
    THEN <<dataset_name, dataset_separator>> \o table_name
    ELSE table_name

version_table_name == <<"_dlt_version">>
loads_table_name == <<"_dlt_loads">>
state_table_name == <<"_dlt_pipeline_state">>
\* schema.dlt_table_names(): the framework's bookkeeping tables
dlt_table_names == {version_table_name, loads_table_name, state_table_name}
\* the data tables of the pipeline: a root table, its child and grandchild
ItemsTable == <<"items">>
SubTable == <<"items__sub">>
LeafTable == <<"items__sub__leaf">>
DataTableNames == {ItemsTable, SubTable, LeafTable}
\* a table the schema declares without any column
BareTable == <<"bare">>
TableNames == dlt_table_names \cup DataTableNames \cup {BareTable}
sentinel_table == make_qualified_table_name(<<sentinel_table_name>>)
QualifiedNames ==
    {make_qualified_table_name(t) : t \in TableNames} \cup {sentinel_table}

\* A stored table: fields is its Arrow schema, rows its rows in storage order.
\* A table that does not exist has exists = FALSE.
NoTable == [exists |-> FALSE, fields |-> <<>>, rows |-> <<>>]
Table(fields, rows) == [exists |-> TRUE, fields |-> fields, rows |-> rows]
Field(name, type, nullable) == [name |-> name, type |-> type, nullable |-> nullable]
\* a cell without value
Null == "<NULL>"

EmptyDb == [q \in QualifiedNames |-> NoTable]

\* db_client.table_names() and LanceDBClient.table_exists
table_names(d) == {q \in DOMAIN d : d[q].exists}
table_exists(d, q) == q \in table_names(d)

\* the store before the client has touched it
StorageIdle ==
    /\ db = EmptyDb
    /\ merge_build = "copies"

Range(seq) == {seq[i] : i \in DOMAIN seq}

RECURSIVE Concat(_)
\* the concatenation of a sequence of sequences
Concat(seqs) ==
    IF seqs = <<>> THEN <<>> ELSE Head(seqs) \o Concat(Tail(seqs))

\* tbl.add(records): the records go after the stored rows
TblAdd(rows, records) == rows \o records

\* an overwrite that keeps the stored rows
TblAddOverwriteKeeps(rows, records) == rows \o records

\* tbl.add(records, mode="overwrite"): one commit that replaces the rows
TblAddOverwrite(rows, records) == records

\* the keys of a batch
Keys(records, on) == {records[i][on] : i \in DOMAIN records}

\* merge_insert(on).when_matched_update_all(): is some stored row matched by
\* more than one row of the payload?  LanceDB leaves the outcome undefined.
AmbiguousMerge(rows, records, on) ==
    \E i \in DOMAIN rows :
        Cardinality({j \in DOMAIN records : records[j][on] = rows[i][on]}) > 1

\* an upsert that never updates: every payload row is inserted
MergeInsertAppends(rows, records, on) == rows \o records

\* merge_insert(on).when_matched_update_all().when_not_matched_insert_all()
\*   .execute(records): a stored row matched by payload rows is replaced by
\* them (one copy per match), an unmatched stored row stays, and the payload
\* rows that match no stored row are inserted.
MergeInsertUpsert(rows, records, on) ==
    LET matches(r) == SelectSeq(records, LAMBDA s : s[on] = r[on])
        updated == Concat([i \in DOMAIN rows |->
                              IF matches(rows[i]) = <<>>
                              THEN <<rows[i]>>
                              ELSE matches(rows[i])])
        inserted == SelectSeq(records, LAMBDA s : s[on] \notin Keys(rows, on))
    IN  updated \o inserted

\* an orphan removal that deletes nothing
MergeInsertDeleteKeepsAll(rows, records, on) == rows

\* an orphan removal that also overwrites the matched rows with the payload
MergeInsertDeleteUpdates(rows, records, on) ==
    MergeInsertUpsert(SelectSeq(rows, LAMBDA r : r[on] \in Keys(records, on)),
                      records, on)

\* merge_insert(on).when_not_matched_by_source_delete().execute(records):
\* the stored rows whose key is the key of no payload row are deleted;
\* nothing is updated and nothing is inserted.
MergeInsertDelete(rows, records, on) ==
    SelectSeq(rows, LAMBDA r : r[on] \in Keys(records, on))

SupportedDispositions == {"append", "skip", "replace", "merge"}

\* the outcome of a write_records call: the exception it raised ("ok" when it
\* returned) and the table it leaves
Outcome(status, table) == [status |-> status, table |-> table]

\* a write_records that treats every unknown disposition as append
write_records_lenient(records, table, write_disposition, id_field, remove_orphans) ==
    IF ~table.exists
    THEN Outcome("DestinationTransientException", table)
    ELSE Outcome("ok", [table EXCEPT !.rows = TblAdd(@, records)])

\* a write_records that looks at the disposition before it opens the table
write_records_disposition_first(records, table, write_disposition, id_field, remove_orphans) ==
    IF write_disposition \notin SupportedDispositions
    THEN Outcome("DestinationTerminalException", table)
    ELSE IF ~table.exists
    THEN Outcome("DestinationTransientException", table)
    ELSE Outcome("ok", [table EXCEPT !.rows = TblAdd(@, records)])

\* write_records(records, db_client, table_name, write_disposition,
\*               id_field_name, remove_orphans) on the table the name denotes
write_records(records, table, write_disposition, id_field, remove_orphans) ==
    IF ~table.exists
    THEN Outcome("DestinationTransientException", table)
    ELSE CASE write_disposition \in {"append", "skip"} ->
                Outcome("ok", [table EXCEPT !.rows = TblAdd(@, records)])
           [] write_disposition = "replace" ->
                Outcome("ok", [table EXCEPT !.rows = TblAddOverwrite(@, records)])
           [] write_disposition = "merge" ->
                IF id_field = NoneStr \/ id_field = ""
                THEN Outcome("ValueError", table)
                ELSE IF remove_orphans
                THEN Outcome("ok",
                        [table EXCEPT !.rows = MergeInsertDelete(@, records, id_field)])
                ELSE IF AmbiguousMerge(table.rows, records, id_field)
                        /\ merge_build = "error"
                THEN Outcome("OSError", table)
                ELSE Outcome("ok",
                        [table EXCEPT !.rows = MergeInsertUpsert(@, records, id_field)])
           [] OTHER -> Outcome("DestinationTerminalException", table)

\* a reader that has not read yet
NotRead == [read |-> FALSE, table |-> NoTable]

\* the destination dataset and its staging dataset
PgDataset == "ds"
PgStagingDataset == "ds_staging"
\* the tables of the chain the staging replace job moves
PgChain == <<"items", "items__sub">>
PgNames == {<<d, PgChain[i]>> : d \in {PgDataset, PgStagingDataset}, i \in DOMAIN PgChain}

\* no Postgres database in use
PgIdle ==
    /\ pg = [n \in PgNames |-> NoTable]
    /\ pg_job = [table_chain |-> <<>>, state |-> "none"]
    /\ pg_old = [n \in PgNames |-> NoTable]
    /\ pg_seen = [i \in DOMAIN PgChain |-> NotRead]

\* no orphan-removal job
OrphansIdle ==
    /\ or_files = <<>>
    /\ or_job = [references |-> <<>>, pos |-> 1, state |-> "none", status |-> "none",
                 writes |-> <<>>]
    /\ or_old = EmptyDb

\* no schema in use: the client has not been given its schema yet
NoSchema == [name |-> "", items |-> 0, c_type |-> "", c_nullable |-> TRUE,
             bookkeeping_disposition |-> NoneStr, bare |-> FALSE]
SchemaIdle ==
    /\ schema = NoSchema
    /\ now = 0
    /\ ss_calls = <<>>

\* get_stored_state has not been called
StateIdle == st_seen = [pipeline_name |-> NoneStr, status |-> "none",
                        info |-> <<>>, parity |-> 0]

\* write_records has not been called
NoWrite == [records |-> <<>>, table |-> NoTable, write_disposition |-> NoneStr,
            id_field_name |-> NoneStr, remove_orphans |-> FALSE,
            pc |-> "none", status |-> "none", after |-> NoTable,
            job_state |-> "none"]
WriteIdle == wr = NoWrite

\* no relation has been built
NoRelation == [provided_query |-> "", table_name |-> "", schema_columns |-> {},
               has_schema |-> FALSE, limit |-> None, selected_columns |-> <<>>]
RelationIdle == rel = [self |-> NoRelation, op |-> "none", arg_limit |-> None,
                       arg_columns |-> <<>>, status |-> "none",
                       result |-> NoRelation, assertions |-> TRUE]

\* no storage call has been made
NoStorageOp == [op |-> "none", status |-> "none", result |-> FALSE,
                before |-> FALSE, created |-> FALSE]
StorageOpIdle == sg = NoStorageOp

\* no lookup has been made
NoLookup == [op |-> "none", key |-> "", status |-> "none", info |-> <<>>,
             matches |-> 0, opened |-> FALSE]
LookupIdle == lk = NoLookup

\* no table chain has completed
NoFollowup == [table_chain |-> <<>>, completed |-> <<>>, status |-> "none", jobs |-> <<>>]
FollowupIdle == fu = NoFollowup

\* no call on the Postgres client
NoPgCall == [op |-> "none", status |-> "none"]
PgCallIdle == pj = NoPgCall

(***************************************************************************)
(* LanceDBLoadJob                                                          *)
(***************************************************************************)

\* Bounds of the load model.
MaxBatchRows == 2
MaxStoredRows == 1
MaxRuns == 2

\* values of the unique identifier column and of the payload column
PKeys == {"k1", "k2"}
Vals == {"v1", "v2"}

\* uuid.uuid5(NAMESPACE_OID, x + table_name): a deterministic id, one per
\* identifier value
Uuid5 ==
    [k \in PKeys |-> CASE k = "k1" -> "uuid5(k1+ds___items)"
                       [] OTHER -> "uuid5(k2+ds___items)"]

\* an id that does not depend on the row (every row gets the same id)
generate_arrow_uuid_column_constant(arrow_table, unique_identifier, id_field) ==
    [i \in DOMAIN arrow_table |->
        [c \in DOMAIN arrow_table[i] \cup {id_field} |->
            IF c = id_field THEN Uuid5["k1"] ELSE arrow_table[i][c]]]

\* generate_arrow_uuid_column: appends the id column computed from the unique
\* identifier column of each row
generate_arrow_uuid_column(arrow_table, unique_identifier, id_field) ==
    [i \in DOMAIN arrow_table |->
        [c \in DOMAIN arrow_table[i] \cup {id_field} |->
            IF c = id_field
            THEN Uuid5[arrow_table[i][unique_identifier]]
            ELSE arrow_table[i][c]]]

SeqsUpTo(S, n) == UNION {[1..k -> S] : k \in 0..n}

\* the rows of a batch file of the items table
FileRows == [pk : PKeys, val : Vals]
BatchFiles == SeqsUpTo(FileRows, MaxBatchRows)

\* the Arrow schema of the items table
ItemsFields ==
    <<Field(id_field_name, PaString, TRUE),
      Field("pk", PaString, FALSE),
      Field("val", PaString, TRUE)>>

\* the items tables earlier loads can have left
StoredItems ==
    {Table(ItemsFields, generate_arrow_uuid_column(f, "pk", id_field_name)) :
        f \in SeqsUpTo(FileRows, MaxStoredRows)}

\* write dispositions a table schema may carry
Dispositions == SupportedDispositions \cup {"foo", NoneStr}

\* no load job
LoadIdle ==
    /\ ld_job = [table |-> ItemsTable, file |-> <<>>, write_disposition |-> "append",
                 state |-> "none", runs |-> 0, applied |-> 0, status |-> "none",
                 opened |-> FALSE, wrote |-> FALSE]
    /\ ld_old = NoTable
    /\ ld_first = NoTable
    /\ ld_seen = NotRead

LoadTarget == make_qualified_table_name(ld_job.table)

LoadInit ==
    /\ TypesIdle
    /\ tm_caps = 6
    /\ tm_col = NoColumn
    /\ merge_build \in {"copies", "error"}
    /\ \E t \in StoredItems \cup {NoTable} :
          /\ db = [EmptyDb EXCEPT ![make_qualified_table_name(ItemsTable)] = t]
          /\ ld_old = t
    /\ \E f \in BatchFiles, d \in Dispositions :
          ld_job = [table |-> ItemsTable, file |-> f, write_disposition |-> d,
                    state |-> "pending", runs |-> 0, applied |-> 0,
                    status |-> "none", opened |-> FALSE, wrote |-> FALSE]
    /\ ld_first = NoTable
    /\ ld_seen = NotRead
    /\ PgIdle
    /\ OrphansIdle
    /\ SchemaIdle
    /\ StateIdle
    /\ WriteIdle
    /\ RelationIdle
    /\ StorageOpIdle
    /\ LookupIdle
    /\ FollowupIdle
    /\ PgCallIdle

\* the payload LanceDBLoadJob.run hands to write_records
LoadRecords ==
    IF ld_job.table \notin dlt_table_names
    THEN generate_arrow_uuid_column(ld_job.file, "pk", id_field_name)
    ELSE ld_job.file

\* the orchestrator starts (or starts again) the job: pending -> running
StartLoadJob ==
    /\ ld_job.state \in {"pending", "retryable_failed"}
    /\ ld_job.runs < MaxRuns
    /\ ld_job' = [ld_job EXCEPT !.state = "running"]
    /\ UNCHANGED <<db, merge_build, ld_old, ld_first, ld_seen, othersOfLoad>>

\* the state an exception of the run leaves the job in
JobStateAfter(status, crash) ==
    CASE status = "ok" -> IF crash THEN "retryable_failed" ELSE "completed"
      [] status = "DestinationTerminalException" -> "terminal_failed"
      [] OTHER -> "retryable_failed"

\* LanceDBLoadJob.run up to the end of write_records.  crash: the run fails
\* after the write has been applied, and the orchestrator sees a job to retry.
RunLoadJob(crash) ==
    /\ ld_job.state = "running"
    /\ LET out == write_records(LoadRecords, db[LoadTarget],
                                ld_job.write_disposition, id_field_name, FALSE)
       IN  /\ crash => out.status = "ok"
           /\ db' = [db EXCEPT ![LoadTarget] = out.table]
           /\ ld_job' = [ld_job EXCEPT
                            !.state = JobStateAfter(out.status, crash),
                            !.runs = @ + 1,
                            !.applied = IF out.status = "ok" THEN @ + 1 ELSE @,
                            !.status = out.status,
                            !.opened = db[LoadTarget].exists,
                            !.wrote = (out.table # db[LoadTarget])]
           /\ ld_first' = IF out.status = "ok" /\ ld_job.applied = 0
                          THEN out.table ELSE ld_first
    /\ UNCHANGED <<merge_build, ld_old, ld_seen, othersOfLoad>>

\* LanceDBClient.create_table: the schema update creates the missing table
CreateItemsTable ==
    /\ ~table_exists(db, LoadTarget)
    /\ db' = [db EXCEPT ![LoadTarget] = Table(ItemsFields, <<>>)]
    /\ UNCHANGED <<merge_build, ldVars, othersOfLoad>>

\* a concurrent reader opens the target table and reads it
ReadTarget ==
    /\ ld_seen' = [read |-> TRUE, table |-> db[LoadTarget]]
    /\ ld_seen' # ld_seen
    /\ UNCHANGED <<db, merge_build, ld_job, ld_old, ld_first, othersOfLoad>>

LoadNext ==
    \/ StartLoadJob
    \/ \E crash \in BOOLEAN : RunLoadJob(crash)
    \/ CreateItemsTable
    \/ ReadTarget

SpecLoad == LoadInit /\ [][LoadNext]_vars

(***************************************************************************)
(* write_records, one call on one table                                    *)
(***************************************************************************)

\* Bound of the write model: rows of the stored table and of the payload.
MaxWriteRows == 2

\* the tables a call can meet and the payloads it can be handed
WriteTables ==
    {Table(ItemsFields, generate_arrow_uuid_column(f, "pk", id_field_name)) :
        f \in SeqsUpTo(FileRows, MaxWriteRows)} \cup {NoTable}
WritePayloads ==
    {generate_arrow_uuid_column(f, "pk", id_field_name) :
        f \in SeqsUpTo(FileRows, MaxWriteRows)}
\* id_field_name as the caller passes it: None, empty, or the id column
IdFieldNames == {NoneStr, "", id_field_name}

WriteInit ==
    /\ TypesIdle
    /\ tm_caps = 6
    /\ tm_col = NoColumn
    /\ db = EmptyDb
    /\ merge_build \in {"copies", "error"}
    /\ LoadIdle
    /\ PgIdle
    /\ OrphansIdle
    /\ SchemaIdle
    /\ StateIdle
    /\ RelationIdle
    /\ StorageOpIdle
    /\ LookupIdle
    /\ FollowupIdle
    /\ PgCallIdle
    /\ \E records \in WritePayloads, table \in WriteTables, d \in Dispositions,
          id \in IdFieldNames, remove_orphans \in BOOLEAN :
          wr = [NoWrite EXCEPT !.records = records, !.table = table,
                               !.write_disposition = d, !.id_field_name = id,
                               !.remove_orphans = remove_orphans,
                               !.pc = "called"]

\* the call runs; job_state is the state a load job is left in when its run
\* ends with the call's outcome
WriteRecords ==
    /\ wr.pc = "called"
    /\ LET out == write_records(wr.records, wr.table, wr.write_disposition,
                                wr.id_field_name, wr.remove_orphans)
       IN  wr' = [wr EXCEPT !.pc = "done", !.status = out.status,
                            !.after = out.table,
                            !.job_state = JobStateAfter(out.status, FALSE)]
    /\ UNCHANGED <<merge_build, othersOfWrite>>

WriteNext == WriteRecords

SpecWrite == WriteInit /\ [][WriteNext]_vars

(***************************************************************************)
(* PostgresStagingCopyJob                                                  *)
(***************************************************************************)

Statement(op, target, arg) == [op |-> op, target |-> target, arg |-> arg]

\* the statements of one table without the ALTER that moves the staging table
generate_sql_table_drop_only(table) ==
    <<Statement("DROP TABLE IF EXISTS", <<PgDataset, table>>, ""),
      Statement("CREATE TABLE LIKE", <<PgStagingDataset, table>>, <<PgDataset, table>>)>>

\* the three statements generate_sql emits for one table of the chain
generate_sql_table(table) ==
    <<Statement("DROP TABLE IF EXISTS", <<PgDataset, table>>, ""),
      Statement("ALTER TABLE SET SCHEMA", <<PgStagingDataset, table>>, PgDataset),
      Statement("CREATE TABLE LIKE", <<PgStagingDataset, table>>, <<PgDataset, table>>)>>

\* PostgresStagingCopyJob.generate_sql
generate_sql(table_chain) ==
    Concat([i \in DOMAIN table_chain |-> generate_sql_table(table_chain[i])])

PgError == [n \in PgNames |-> [exists |-> FALSE, fields |-> <<"error">>, rows |-> <<>>]]

\* what Postgres does with one statement; PgError when the statement fails
ExecuteStatement(state, st) ==
    IF state = PgError THEN PgError
    ELSE CASE st.op = "DROP TABLE IF EXISTS" ->
                [state EXCEPT ![st.target] = NoTable]
           [] st.op = "ALTER TABLE SET SCHEMA" ->
                IF state[st.target].exists /\ ~state[<<st.arg, st.target[2]>>].exists
                THEN [state EXCEPT ![<<st.arg, st.target[2]>>] = state[st.target],
                                   ![st.target] = NoTable]
                ELSE PgError
           [] OTHER ->
                IF state[st.arg].exists /\ ~state[st.target].exists
                THEN [state EXCEPT ![st.target] = Table(state[st.arg].fields, <<>>)]
                ELSE PgError

RECURSIVE ExecuteSql(_, _)
\* the statements of the job, run in order
ExecuteSql(state, sql) ==
    IF sql = <<>> THEN state
    ELSE ExecuteSql(ExecuteStatement(state, Head(sql)), Tail(sql))

PgFields == <<Field("val", PaString, TRUE)>>
PgTables == {NoTable} \cup {Table(PgFields, rows) : rows \in SeqsUpTo([val : Vals], 1)}

PgInit ==
    /\ pg \in [PgNames -> PgTables]
    /\ pg_old = pg
    /\ pg_job = [table_chain |-> PgChain, state |-> "pending"]
    /\ pg_seen = [i \in DOMAIN PgChain |-> NotRead]

\* the follow-up job runs the generated statements as one transaction: all of
\* them are committed together, or none when a statement fails
RunStagingCopyJob ==
    /\ pg_job.state = "pending"
    /\ LET after == ExecuteSql(pg, generate_sql(pg_job.table_chain))
       IN  IF after = PgError
           THEN /\ pg_job' = [pg_job EXCEPT !.state = "failed"]
                /\ pg' = pg
           ELSE /\ pg_job' = [pg_job EXCEPT !.state = "completed"]
                /\ pg' = after
    /\ UNCHANGED <<pg_old, pg_seen, othersOfPg>>

\* a concurrent reader selects from a destination table of the chain
ReadDestination(i) ==
    /\ pg_job.state # "none"
    /\ pg_seen' = [pg_seen EXCEPT ![i] = [read |-> TRUE, table |-> pg[<<PgDataset, PgChain[i]>>]]]
    /\ pg_seen' # pg_seen
    /\ UNCHANGED <<pg, pg_job, pg_old, othersOfPg>>

PgNext ==
    \/ RunStagingCopyJob
    \/ \E i \in DOMAIN PgChain : ReadDestination(i)

\* a replace on LanceDB (no Postgres job), or a staging replace on Postgres
\* (no LanceDB job)
ReplaceInit ==
    \/ /\ LoadInit
       /\ ld_job.write_disposition = "replace"
    \/ /\ TypesIdle
       /\ tm_caps = 6
       /\ tm_col = NoColumn
       /\ StorageIdle
       /\ LoadIdle
       /\ PgInit
       /\ OrphansIdle
       /\ SchemaIdle
       /\ StateIdle
       /\ WriteIdle
       /\ RelationIdle
       /\ StorageOpIdle
       /\ LookupIdle
       /\ FollowupIdle
       /\ PgCallIdle
    /\ FollowupIdle
    /\ PgCallIdle

ReplaceNext ==
    \/ /\ ld_job.state # "none"
       /\ LoadNext
    \/ PgNext

SpecReplace == ReplaceInit /\ [][ReplaceNext]_vars

(***************************************************************************)
(* LanceDBRemoveOrphansJob                                                 *)
(***************************************************************************)

\* schema.get_table(name): the parent of a table, NoneStr for a root table
ParentOf(table_name) ==
    CASE table_name = SubTable -> ItemsTable
      [] table_name = LeafTable -> SubTable
      [] OTHER -> <<NoneStr>>

\* row ids of the three tables and the parent each child row points to
RootIds == {"r1", "r2"}
SubIds == {"s1", "s2"}
LeafIds == {"l1", "l2"}
ParentId ==
    [i \in SubIds \cup LeafIds |->
        CASE i = "s1" -> "r1" [] i = "s2" -> "r2" [] i = "l1" -> "s1" [] OTHER -> "s2"]

\* the id column LanceDBLoadJob computed for a stored row
StoredUuid ==
    [i \in RootIds \cup SubIds \cup LeafIds |->
        CASE i = "r1" -> "uuid5(r1)" [] i = "r2" -> "uuid5(r2)"
          [] i = "s1" -> "uuid5(s1)" [] i = "s2" -> "uuid5(s2)"
          [] i = "l1" -> "uuid5(l1)" [] OTHER -> "uuid5(l2)"]

\* the Arrow schema of the batch file of each table
DltIdField == Field("_dlt_id", PaString, FALSE)
DltParentIdField == Field("_dlt_parent_id", PaString, FALSE)
ValField == Field("val", PaInt64, TRUE)
BlobField == Field("blob", PaBinary, TRUE)
BatchFields(table_name) ==
    CASE table_name = ItemsTable -> <<DltIdField, ValField>>
      [] table_name = SubTable -> <<DltIdField, DltParentIdField, ValField>>
      [] OTHER -> <<DltIdField, DltParentIdField, ValField, BlobField>>

\* a row of a batch file; val tells the load that wrote the row
BatchRow(table_name, i, val) ==
    CASE table_name = ItemsTable -> [_dlt_id |-> i, val |-> val]
      [] table_name = SubTable ->
            [_dlt_id |-> i, _dlt_parent_id |-> ParentId[i], val |-> val]
      [] OTHER ->
            [_dlt_id |-> i, _dlt_parent_id |-> ParentId[i], val |-> val, blob |-> "b"]

\* the row a load job stores for a batch row: the batch row and its id column
StoredRow(table_name, i, val) ==
    LET r == BatchRow(table_name, i, val)
    IN  [c \in DOMAIN r \cup {id_field_name} |->
            IF c = id_field_name THEN StoredUuid[i] ELSE r[c]]

\* the row ids in storage order, and the ids of a set in that order
IdOrder == <<"r1", "r2", "s1", "s2", "l1", "l2">>
SetToSeq(S) == SelectSeq(IdOrder, LAMBDA x : x \in S)

\* the path of the batch file of a table
PathOf(table_name) == table_name \o <<"parquet">>
\* ParsedLoadJobFileName.parse(path).table_name
ParsedTableName(path) == SubSeq(path, 1, Len(path) - 1)

\* the batch file a load wrote for the rows ids of a table
BatchFile(table_name, ids) ==
    [table_name |-> table_name,
     fields |-> Range(BatchFields(table_name)),
     rows |-> [k \in 1..Cardinality(ids) |->
                  BatchRow(table_name, SetToSeq(ids)[k], "2")]]

\* the table after the batch ids were merged into the rows old of earlier loads
LoadedTable(table_name, old, ids) ==
    LET fields == <<Field(id_field_name, PaString, TRUE)>> \o BatchFields(table_name)
        oldSeq == SetToSeq(old \ ids)
        newSeq == SetToSeq(ids)
    IN  Table(fields,
              [k \in 1..Len(oldSeq) |-> StoredRow(table_name, oldSeq[k], "1")]
              \o [k \in 1..Len(newSeq) |-> StoredRow(table_name, newSeq[k], "2")])

\* the lineage references the follow-up job request can carry
Lineages ==
    {<<PathOf(ItemsTable)>>, <<PathOf(ItemsTable), PathOf(SubTable)>>,
     <<PathOf(ItemsTable), PathOf(SubTable), PathOf(LeafTable)>>,
     <<PathOf(ItemsTable), PathOf(LeafTable)>>,
     <<PathOf(SubTable), PathOf(ItemsTable)>>,
     <<PathOf(SubTable)>>, <<PathOf(SubTable), PathOf(LeafTable)>>}

OrphansInit ==
    /\ TypesIdle
    /\ tm_caps = 6
    /\ tm_col = NoColumn
    /\ merge_build = "copies"
    /\ LoadIdle
    /\ PgIdle
    /\ SchemaIdle
    /\ StateIdle
    /\ WriteIdle
    /\ RelationIdle
    /\ StorageOpIdle
    /\ LookupIdle
    /\ FollowupIdle
    /\ PgCallIdle
    /\ \E oldR \in SUBSET RootIds, newR \in SUBSET RootIds,
          oldS \in SUBSET SubIds, newS \in SUBSET SubIds,
          oldL \in SUBSET LeafIds, newL \in SUBSET LeafIds :
          \* the rows of a batch belong to the rows of the parent's batch
          /\ \A i \in newS : ParentId[i] \in newR
          /\ \A i \in newL : ParentId[i] \in newS
          /\ or_files = [f \in {PathOf(t) : t \in DataTableNames} |->
                            BatchFile(ParsedTableName(f),
                                      CASE f = PathOf(ItemsTable) -> newR
                                        [] f = PathOf(SubTable) -> newS
                                        [] OTHER -> newL)]
          /\ db = [q \in QualifiedNames |->
                      CASE q = make_qualified_table_name(ItemsTable) ->
                              LoadedTable(ItemsTable, oldR, newR)
                        [] q = make_qualified_table_name(SubTable) ->
                              LoadedTable(SubTable, oldS, newS)
                        [] q = make_qualified_table_name(LeafTable) ->
                              LoadedTable(LeafTable, oldL, newL)
                        [] OTHER -> NoTable]
    /\ or_old = db
    /\ \E refs \in Lineages :
          or_job = [references |-> refs, pos |-> 1, state |-> "running",
                    status |-> "none", writes |-> <<>>]

\* get_default_arrow_value: the placeholder of a type; Null for a type that
\* has none (the job logs a warning and pads with nulls)
get_default_arrow_value(type) ==
    CASE type.k = "string" -> ""
      [] type.k = "int64" -> "0"
      [] type.k = "float64" -> "0.0"
      [] type.k = "bool" -> "False"
      [] type.k = "date32" -> "1970-01-01"
      [] type.k = "timestamp" -> "0"
      [] OTHER -> Null

FieldNames(fields) == {f.name : f \in fields}

\* a payload that is handed over without the columns it lacks
PaddedPayload_unpadded(payload_file, target_table_schema) ==
    [k \in DOMAIN payload_file.rows |->
        [c \in FieldNames(payload_file.fields) \cup {id_field_name} |->
            IF c \in FieldNames(payload_file.fields)
            THEN payload_file.rows[k][c] ELSE ""]]

\* the payload of one reference: the rows of the payload file, a placeholder
\* column for every field of the target file's schema the payload file lacks,
\* and the id column holding ""
PaddedPayload(payload_file, target_table_schema) ==
    LET schema_difference == target_table_schema \ payload_file.fields
        placeholder(c) ==
            get_default_arrow_value(
                (CHOOSE f \in schema_difference : f.name = c).type)
    IN  [k \in DOMAIN payload_file.rows |->
            [c \in FieldNames(payload_file.fields) \cup FieldNames(schema_difference)
                    \cup {id_field_name} |->
                CASE c \in FieldNames(payload_file.fields) -> payload_file.rows[k][c]
                  [] c \in FieldNames(schema_difference) -> placeholder(c)
                  [] OTHER -> ""]]

\* LanceDBRemoveOrphansJob.get_parent_path: the path of the first reference
\* of the table; <<"StopIteration">> when the lineage holds none
get_parent_path(references, table) ==
    IF \E i \in DOMAIN references : ParsedTableName(references[i]) = table
    THEN references[CHOOSE i \in DOMAIN references :
                        /\ ParsedTableName(references[i]) = table
                        /\ \A j \in 1..(i - 1) : ParsedTableName(references[j]) # table]
    ELSE <<"StopIteration">>

\* one round of the loop of LanceDBRemoveOrphansJob.run: the reference at the
\* job's position is pruned
ProcessReference ==
    /\ or_job.state = "running"
    /\ or_job.pos <= Len(or_job.references)
    /\ LET target_table_path == or_job.references[or_job.pos]
           target_table_name == ParsedTableName(target_table_path)
           target_is_root_table == ParentOf(target_table_name) = <<NoneStr>>
           fq_table_name == make_qualified_table_name(target_table_name)
           target_table_id_field_name ==
               IF target_is_root_table THEN "_dlt_id" ELSE "_dlt_parent_id"
           file_path ==
               IF target_is_root_table THEN target_table_path
               ELSE get_parent_path(or_job.references, ParentOf(target_table_name))
       IN  IF file_path = <<"StopIteration">>
           THEN /\ or_job' = [or_job EXCEPT
                                 !.state = JobStateAfter("StopIteration", FALSE),
                                 !.status = "StopIteration"]
                /\ db' = db
           ELSE LET records == PaddedPayload(or_files[file_path],
                                             or_files[target_table_path].fields)
                    out == write_records(records, db[fq_table_name], "merge",
                                         target_table_id_field_name, TRUE)
                IN  /\ db' = [db EXCEPT ![fq_table_name] = out.table]
                    /\ or_job' = [or_job EXCEPT
                          !.pos = IF out.status = "ok" THEN @ + 1 ELSE @,
                          !.status = out.status,
                          \* what is kept of the write_records call
                          !.writes = Append(@, [table_name |-> target_table_name,
                                                id_field_name |-> target_table_id_field_name,
                                                file_path |-> file_path,
                                                records |-> records]),
                          !.state =
                             IF out.status = "ok"
                             THEN IF or_job.pos = Len(or_job.references)
                                  THEN "completed" ELSE "running"
                             ELSE JobStateAfter(out.status, FALSE)]
    /\ UNCHANGED <<or_files, or_old, othersOfOrphans>>

OrphansNext == ProcessReference

SpecOrphans == OrphansInit /\ [][OrphansNext]_vars

(***************************************************************************)
(* Schema storage: update_stored_schema and the stored schema lookups      *)
(***************************************************************************)

\* Bounds of the schema model.
MaxSchemaRecords == 2
MaxNow == 2
MaxItemsRows == 1

\* The logical schemas of the model.  A schema has a name, the standard
\* tables _dlt_version and _dlt_loads and, with items > 0, the data table
\* items: columns a, b (items = 1) or a, b, c (items = 2).  c_type and
\* c_nullable are the declaration of column c; bookkeeping_disposition is the
\* write_disposition the schema declares for the two standard tables.
SchemaNames == {"s1", "s2"}
CTypes == {"bigint"}
BookkeepingDispositions == {"skip"}
Schemas ==
    {[name |-> n, items |-> i, c_type |-> t, c_nullable |-> b,
      bookkeeping_disposition |-> d, bare |-> FALSE] :
        n \in SchemaNames, i \in 0..1, t \in {""}, b \in {TRUE},
        d \in BookkeepingDispositions}
    \cup
    {[name |-> n, items |-> 2, c_type |-> t, c_nullable |-> b,
      bookkeeping_disposition |-> d, bare |-> FALSE] :
        n \in SchemaNames, t \in CTypes, b \in BOOLEAN,
        d \in BookkeepingDispositions}

\* schema.stored_version_hash: a digest of the schema's content
version_hash(s) ==
    "h(" \o s.name \o "," \o ToString(s.items) \o "," \o s.c_type \o ","
         \o ToString(s.c_nullable) \o "," \o s.bookkeeping_disposition \o ","
         \o ToString(s.bare) \o ")"

\* schema.tables, in the order the update visits them
schema_tables(s) ==
    <<version_table_name, loads_table_name>>
        \o (IF s.items > 0 THEN <<ItemsTable>> ELSE <<>>)
        \o (IF s.bare THEN <<BareTable>> ELSE <<>>)

Column(name, data_type, nullable) ==
    [name |-> name, data_type |-> data_type, precision |-> None,
     scale |-> None, nullable |-> nullable]

\* schema.get_table_columns(table_name)
get_table_columns(s, table_name) ==
    CASE table_name = version_table_name ->
            <<Column("version_hash", "text", FALSE),
              Column("schema_name", "text", FALSE),
              Column("inserted_at", "timestamp", FALSE),
              Column("schema", "text", FALSE)>>
      [] table_name = loads_table_name ->
            <<Column("load_id", "text", FALSE),
              Column("schema_name", "text", TRUE),
              Column("status", "bigint", FALSE),
              Column("inserted_at", "timestamp", FALSE),
              Column("schema_version_hash", "text", TRUE)>>
      [] table_name = BareTable -> <<>>
      [] OTHER ->
            <<Column("a", "text", FALSE), Column("b", "bigint", TRUE)>>
                \o (IF s.items = 2
                    THEN <<Column("c", s.c_type, s.c_nullable)>> ELSE <<>>)

\* schema.get_table(table_name).get("write_disposition")
get_write_disposition(s, table_name) ==
    IF table_name \in dlt_table_names THEN s.bookkeeping_disposition ELSE "append"

\* str(pendulum.now()) for the clock value n, and the place of such a text in
\* the order of texts
TimeStr(n) == "t" \o ToString(n)
TimeRank(text) == CHOOSE n \in 0..(MaxNow + 1) : TimeStr(n) = text

\* the result of a lookup: the exception it raised ("ok" when it returned) and
\* <<>> for None or <<row>> for the row found
SchemaInfo(status, info) == [status |-> status, info |-> info]

\* a lookup that takes the first stored row
FirstStored(schemas) == schemas[1]

\* sorted(schemas, key=inserted_at, reverse=True)[0]: the sort is stable, so of
\* the rows with the greatest inserted_at the first in storage order is taken
MostRecent(schemas) ==
    schemas[CHOOSE i \in DOMAIN schemas :
                /\ \A j \in DOMAIN schemas :
                      TimeRank(schemas[j].inserted_at) <= TimeRank(schemas[i].inserted_at)
                /\ \A j \in 1..(i - 1) :
                      TimeRank(schemas[j].inserted_at) < TimeRank(schemas[i].inserted_at)]

\* get_stored_schema_by_hash(schema_hash)
get_stored_schema_by_hash(d, schema_hash) ==
    LET version_table == d[make_qualified_table_name(version_table_name)]
        schemas == SelectSeq(version_table.rows,
                             LAMBDA r : r.version_hash = schema_hash)
    IN  IF ~version_table.exists THEN SchemaInfo("DestinationUndefinedEntity", <<>>)
        ELSE IF schemas = <<>> THEN SchemaInfo("ok", <<>>)
        ELSE SchemaInfo("ok", <<MostRecent(schemas)>>)

\* a lookup without the handler of the IndexError of an empty selection
get_stored_schema_unguarded(d, s) ==
    LET version_table == d[make_qualified_table_name(version_table_name)]
        schemas == SelectSeq(version_table.rows,
                             LAMBDA r : r.schema_name = s.name)
    IN  IF ~version_table.exists THEN SchemaInfo("DestinationUndefinedEntity", <<>>)
        ELSE IF schemas = <<>> THEN SchemaInfo("DestinationTransientException", <<>>)
        ELSE SchemaInfo("ok", <<MostRecent(schemas)>>)

\* get_stored_schema()
get_stored_schema(d, s) ==
    LET version_table == d[make_qualified_table_name(version_table_name)]
        schemas == SelectSeq(version_table.rows,
                             LAMBDA r : r.schema_name = s.name)
    IN  IF ~version_table.exists THEN SchemaInfo("DestinationUndefinedEntity", <<>>)
        ELSE IF schemas = <<>> THEN SchemaInfo("ok", <<>>)
        ELSE SchemaInfo("ok", <<MostRecent(schemas)>>)

\* a record write that overwrites the version table whatever is declared
update_schema_in_storage_overwrites(d, s, inserted_at) ==
    LET records == <<[version_hash |-> version_hash(s), schema_name |-> s.name,
                      inserted_at |-> inserted_at,
                      schema |-> "json" \o version_hash(s)]>>
        fq_version_table_name == make_qualified_table_name(version_table_name)
        out == write_records(records, d[fq_version_table_name], "replace",
                             NoneStr, FALSE)
    IN  [db |-> [d EXCEPT ![fq_version_table_name] = out.table],
         status |-> IF out.status = "ok" THEN "ok"
                    ELSE "DestinationTransientException"]

\* update_schema_in_storage(): one record of the client's schema is written to
\* the version table with the disposition the schema declares for it
update_schema_in_storage(d, s, inserted_at) ==
    LET records == <<[version_hash |-> version_hash(s), schema_name |-> s.name,
                      inserted_at |-> inserted_at,
                      schema |-> "json" \o version_hash(s)]>>
        fq_version_table_name == make_qualified_table_name(version_table_name)
        out == write_records(records, d[fq_version_table_name],
                             get_write_disposition(s, version_table_name),
                             NoneStr, FALSE)
    IN  [db |-> [d EXCEPT ![fq_version_table_name] = out.table],
         status |-> IF out.status = "ok" THEN "ok"
                    ELSE "DestinationTransientException"]

\* get_storage_table(table_name): does the table exist, and its column names
get_storage_table(d, table_name) ==
    LET table == d[make_qualified_table_name(table_name)]
    IN  [exists |-> table.exists,
         columns |-> {table.fields[i].name : i \in DOMAIN table.fields}]

\* schema.get_new_table_columns: the logical columns storage does not hold
get_new_table_columns(s, table_name, existing_columns) ==
    SelectSeq(get_table_columns(s, table_name),
              LAMBDA c : c.name \notin existing_columns)

\* make_arrow_field_schema: pa.field(name, to_db_type(column)), nullable
make_arrow_field_schema(column) ==
    Field(column.name, to_db_type(tm_caps, column), TRUE)

\* make_arrow_table_schema: the id field first when one is asked for, then a
\* field per logical column (no column of the model carries the embed hint)
make_arrow_table_schema(s, table_name, id_field) ==
    (IF id_field # NoneStr THEN <<Field(id_field, PaString, TRUE)>> ELSE <<>>)
        \o [i \in DOMAIN get_table_columns(s, table_name) |->
                make_arrow_field_schema(get_table_columns(s, table_name)[i])]

\* the storage faults an extension can hit: none, an OSError raised by
\* add_columns, an OSError raised by the first alter_columns, or an exception
\* of another class raised by add_columns
Faults == {"none", "add_columns", "alter_columns", "error"}

\* the rows of a table after add_columns: every row holds NULL in a new column
AddColumns(table, field_schemas, nullable) ==
    [table EXCEPT
        !.fields = @ \o [i \in DOMAIN field_schemas |->
                            [field_schemas[i] EXCEPT !.nullable = nullable]],
        !.rows = [k \in DOMAIN @ |->
                    [c \in DOMAIN @[k] \cup FieldNames(Range(field_schemas)) |->
                        IF c \in DOMAIN @[k] THEN @[k][c] ELSE Null]]]

\* an extension that builds the table anew with the wider schema
extend_lancedb_table_schema_recreates(table, field_schemas, fault) ==
    Outcome("ok", Table(table.fields \o field_schemas, <<>>))

\* an extension that leaves the new columns as add_columns makes them
extend_lancedb_table_schema_unaltered(table, field_schemas, fault) ==
    Outcome("ok", AddColumns(table, field_schemas, FALSE))

\* extend_lancedb_table_schema: add_columns(CAST(NULL AS type)) and then
\* alter_columns(nullable = field.nullable) for every field; an OSError ends
\* the call silently
extend_lancedb_table_schema(table, field_schemas, fault) ==
    CASE fault = "add_columns" -> Outcome("ok", table)
      [] fault = "alter_columns" ->
            Outcome("ok", AddColumns(table, field_schemas, FALSE))
      [] fault = "error" -> Outcome("DestinationTransientException", table)
      [] OTHER ->
            LET added == AddColumns(table, field_schemas, FALSE)
                altered(field) ==
                    IF \E f \in Range(field_schemas) : f.name = field.name
                    THEN Field(field.name, field.type,
                               (CHOOSE f \in Range(field_schemas) :
                                    f.name = field.name).nullable)
                    ELSE field
            IN  Outcome("ok",
                    [added EXCEPT !.fields = [i \in DOMAIN added.fields |->
                                                 altered(added.fields[i])]])

\* the body of the loop of _execute_schema_update for one table, after
\* get_storage_table has answered with storage
UpdateTableWith(d, s, table_name, storage, fault) ==
    LET new_columns == get_new_table_columns(s, table_name, storage.columns)
        fq_table_name == make_qualified_table_name(table_name)
        field_schemas == [i \in DOMAIN new_columns |->
                             make_arrow_field_schema(new_columns[i])]
    IN  IF new_columns = <<>> THEN Outcome("ok", d[fq_table_name])
        ELSE IF storage.exists
        THEN extend_lancedb_table_schema(d[fq_table_name], field_schemas, fault)
        ELSE Outcome("ok",
                 Table(make_arrow_table_schema(s, table_name,
                           IF table_name \notin dlt_table_names
                           THEN id_field_name ELSE NoneStr),
                       <<>>))

\* the body of the loop of _execute_schema_update for one table
UpdateTable(d, s, table_name, fault) ==
    UpdateTableWith(d, s, table_name, get_storage_table(d, table_name), fault)

RECURSIVE UpdateTables(_, _, _, _)
\* the loop of _execute_schema_update over the tables in scope; an exception
\* ends it
UpdateTables(d, s, tables, fault) ==
    IF tables = <<>> THEN [db |-> d, status |-> "ok"]
    ELSE LET out == UpdateTable(d, s, Head(tables), fault)
             fq_table_name == make_qualified_table_name(Head(tables))
         IN  IF out.status # "ok" THEN [db |-> d, status |-> out.status]
             ELSE UpdateTables([d EXCEPT ![fq_table_name] = out.table], s,
                               Tail(tables), fault)

\* _execute_schema_update(only_tables): {} stands for no filter
execute_schema_update(d, s, only_tables, fault, inserted_at) ==
    LET scope == IF only_tables = {} THEN schema_tables(s)
                 ELSE SelectSeq(schema_tables(s), LAMBDA t : t \in only_tables)
        updated == UpdateTables(d, s, scope, fault)
    IN  IF updated.status # "ok" THEN updated
        ELSE update_schema_in_storage(updated.db, s, inserted_at)

\* an update that never looks the hash up
update_stored_schema_always(d, s, only_tables, fault, inserted_at) ==
    execute_schema_update(d, s, only_tables, fault, inserted_at)

\* update_stored_schema(only_tables)
update_stored_schema(d, s, only_tables, fault, inserted_at) ==
    LET schema_info == get_stored_schema_by_hash(d, version_hash(s))
    IN  IF schema_info.info = <<>>
        THEN execute_schema_update(d, s, only_tables, fault, inserted_at)
        ELSE [db |-> d, status |-> "ok"]

VersionRows(d) == d[make_qualified_table_name(version_table_name)].rows

SchemaInit ==
    /\ TypesIdle
    /\ tm_caps = 6
    /\ tm_col = NoColumn
    /\ merge_build = "copies"
    /\ LoadIdle
    /\ PgIdle
    /\ OrphansIdle
    /\ StateIdle
    /\ WriteIdle
    /\ RelationIdle
    /\ StorageOpIdle
    /\ LookupIdle
    /\ FollowupIdle
    /\ PgCallIdle
    \* initialize_storage has created the sentinel table
    /\ db = [EmptyDb EXCEPT ![sentinel_table] = Table(<<>>, <<>>)]
    /\ schema \in Schemas
    /\ now = 0
    /\ ss_calls = <<>>

\* the client is handed another logical schema
SetSchema(s) ==
    /\ s # schema
    /\ schema' = s
    /\ ss_calls' = <<>>
    /\ UNCHANGED <<db, now, othersOfSchema>>

\* time passes
Tick ==
    /\ now < MaxNow
    /\ now' = now + 1
    /\ UNCHANGED <<db, schema, ss_calls, othersOfSchema>>

\* what is kept of a call: its hash, how it ended, whether it found the hash,
\* whether it changed the database, whether the storage raised no error,
\* whether the items table was in its scope, and the items table before it
Call(hash, status, found, changed, clean, items_in_scope, items_before) ==
    [hash |-> hash, status |-> status, found |-> found, changed |-> changed,
     clean |-> clean, items_in_scope |-> items_in_scope,
     items_before |-> items_before]

\* the last call and, in front of it, hash, end and finding of the call before
LastTwo(calls, call) ==
    IF calls = <<>> THEN <<call>>
    ELSE LET e == calls[Len(calls)]
         IN  <<Call(e.hash, e.status, e.found, FALSE, TRUE, FALSE, NoTable), call>>

\* does a call with this filter extend a stored table?
ExtendsSomeTable(d, s, only_tables) ==
    /\ get_stored_schema_by_hash(d, version_hash(s)).info = <<>>
    /\ \E t \in Range(schema_tables(s)) :
          /\ only_tables = {} \/ t \in only_tables
          /\ get_storage_table(d, t).exists
          /\ get_new_table_columns(s, t, get_storage_table(d, t).columns) # <<>>

\* a call of update_stored_schema(only_tables) during which the storage
\* behaves as fault says; only a call that extends a table can hit the fault
UpdateStoredSchema(only_tables, fault) ==
    \E found \in {get_stored_schema_by_hash(db, version_hash(schema)).info # <<>>},
       out \in {update_stored_schema(db, schema, only_tables, fault, TimeStr(now))} :
        /\ found \/ Len(VersionRows(db)) < MaxSchemaRecords
        /\ fault # "none" => ExtendsSomeTable(db, schema, only_tables)
        /\ db' = out.db
        /\ ss_calls' = LastTwo(ss_calls,
                          Call(version_hash(schema), out.status, found,
                               out.db # db, fault = "none",
                               only_tables = {} \/ ItemsTable \in only_tables,
                               db[make_qualified_table_name(ItemsTable)]))
        /\ UNCHANGED <<schema, now, othersOfSchema>>

\* a direct call of update_schema_in_storage()
UpdateSchemaInStorage ==
    /\ Len(VersionRows(db)) < MaxSchemaRecords
    /\ db' = update_schema_in_storage(db, schema, TimeStr(now)).db
    /\ ss_calls' = <<>>
    /\ UNCHANGED <<schema, now, othersOfSchema>>

\* the row a load of the items table writes: a value for every column of the
\* batch file and the generated id
ItemsRow(s) ==
    [c \in {id_field_name, "a", "b"} \cup (IF s.items = 2 THEN {"c"} ELSE {}) |->
        CASE c = id_field_name -> "uuid5(a1+ds___items)"
          [] c = "a" -> "a1"
          [] c = "b" -> "1"
          [] OTHER -> IF s.c_type = "bigint" THEN "7" ELSE "c1"]

\* a load job appends a row to the items table whose columns the batch has
LoadItems ==
    LET fq_table_name == make_qualified_table_name(ItemsTable)
        out == write_records(<<ItemsRow(schema)>>, db[fq_table_name],
                             get_write_disposition(schema, ItemsTable),
                             id_field_name, FALSE)
    IN  /\ schema.items > 0
        /\ get_storage_table(db, ItemsTable).columns = DOMAIN ItemsRow(schema)
        /\ Len(db[fq_table_name].rows) < MaxItemsRows
        /\ db' = [db EXCEPT ![fq_table_name] = out.table]
        /\ ss_calls' = <<>>
        /\ UNCHANGED <<schema, now, othersOfSchema>>

OnlyTables == {{}, {ItemsTable}, {version_table_name, loads_table_name}}

SchemaNext ==
    \/ \E s \in Schemas : SetSchema(s)
    \/ Tick
    \/ \E only_tables \in OnlyTables, fault \in Faults :
          UpdateStoredSchema(only_tables, fault)
    \/ UpdateSchemaInStorage
    \/ LoadItems

SpecSchema == SchemaInit /\ [][SchemaNext]_vars

(***************************************************************************)
(* update_stored_schema on a store that can stop answering                 *)
(***************************************************************************)

\* the schemas of the upgrade model: with or without an items table, of two
\* or three columns, and with or without a table that declares no column
UpgradeSchemas ==
    {[name |-> "s1", items |-> i, c_type |-> IF i = 2 THEN "bigint" ELSE "",
      c_nullable |-> TRUE, bookkeeping_disposition |-> "skip", bare |-> b] :
        i \in 0..2, b \in BOOLEAN}

\* no table of the scope is out of reach
Reachable == <<NoneStr>>

\* an introspection that takes a table it cannot open for an absent one
get_storage_table_absent(d, table_name) ==
    [status |-> "ok", exists |-> FALSE, columns |-> {}]

\* get_storage_table(table_name) on a store that cannot be reached: open_table
\* raises an exception that is no FileNotFoundError; it leaves the method and
\* the loop, and lancedb_error on update_stored_schema raises it as a
\* DestinationTransientException
get_storage_table_unreachable(d, table_name) ==
    [status |-> "DestinationTransientException", exists |-> FALSE, columns |-> {}]

RECURSIVE UpgradeTables(_, _, _, _)
\* the loop of _execute_schema_update when the store cannot be reached at the
\* introspection of the table unreachable
UpgradeTables(d, s, tables, unreachable) ==
    IF tables = <<>> THEN [db |-> d, status |-> "ok"]
    ELSE LET table_name == Head(tables)
             fq_table_name == make_qualified_table_name(table_name)
             storage ==
                 IF table_name = unreachable
                 THEN get_storage_table_unreachable(d, table_name)
                 ELSE [status |-> "ok",
                       exists |-> get_storage_table(d, table_name).exists,
                       columns |-> get_storage_table(d, table_name).columns]
             out == UpdateTableWith(d, s, table_name, storage, "none")
         IN  IF storage.status # "ok" THEN [db |-> d, status |-> storage.status]
             ELSE UpgradeTables([d EXCEPT ![fq_table_name] = out.table], s,
                                Tail(tables), unreachable)

\* the tables a call with the filter only_tables visits, in order
ScopeOf(s, only_tables) ==
    IF only_tables = {} THEN schema_tables(s)
    ELSE SelectSeq(schema_tables(s), LAMBDA t : t \in only_tables)

\* update_stored_schema(only_tables) on such a store
update_stored_schema_on(d, s, only_tables, unreachable, inserted_at) ==
    LET schema_info == get_stored_schema_by_hash(d, version_hash(s))
        updated == UpgradeTables(d, s, ScopeOf(s, only_tables), unreachable)
    IN  IF schema_info.info # <<>> THEN [db |-> d, status |-> "ok"]
        ELSE IF updated.status # "ok" THEN updated
        ELSE update_schema_in_storage(updated.db, s, inserted_at)

\* the value update_stored_schema returns: applied_update is bound to the
\* empty dictionary before the lookup and returned as it is, whatever the
\* call did in between
applied_update == {}

UpgradeOnlyTables ==
    {{}, {ItemsTable, BareTable}, {version_table_name, loads_table_name}}

UpgradeInit ==
    /\ SchemaInit
    /\ schema \in UpgradeSchemas

\* a call of update_stored_schema(only_tables); what is kept of it: the
\* database before it, its filter, how it ended, whether it found the hash,
\* the table whose introspection found the store out of reach, and the
\* tables of the value it returned
UpgradeStoredSchema(only_tables, unreachable) ==
    LET found == get_stored_schema_by_hash(db, version_hash(schema)).info # <<>>
        out == update_stored_schema_on(db, schema, only_tables, unreachable,
                                       TimeStr(now))
    IN  /\ found \/ Len(VersionRows(db)) < MaxSchemaRecords
        /\ \/ unreachable = Reachable
           \/ ~found /\ unreachable \in Range(ScopeOf(schema, only_tables))
        /\ db' = out.db
        /\ ss_calls' = <<[before |-> db, only_tables |-> only_tables,
                          status |-> out.status, found |-> found,
                          unreachable |-> unreachable,
                          returned |-> applied_update]>>
        /\ UNCHANGED <<schema, now, othersOfSchema>>

UpgradeNext ==
    \/ \E s \in UpgradeSchemas : SetSchema(s)
    \/ \E only_tables \in UpgradeOnlyTables, unreachable \in TableNames \cup {Reachable} :
          UpgradeStoredSchema(only_tables, unreachable)

SpecUpgrade == UpgradeInit /\ [][UpgradeNext]_vars

(***************************************************************************)
(* Pipeline state: complete_load and get_stored_state                      *)
(***************************************************************************)

\* Bounds of the state model.
MaxStateRows == 2
MaxCompleted == 2

Pipelines == {"p", "q"}
\* the load ids, least first: strings of one width, ordered as text
LoadIds == <<"1", "2", "3">>
LoadIdRank(load_id) == CHOOSE i \in DOMAIN LoadIds : LoadIds[i] = load_id

\* the write disposition of dlt's pipeline state table (dlt.pipeline.state_sync)
StateWriteDisposition == "append"
\* the schema of the client: dlt's standard tables are declared with "skip"
StateSchema == [name |-> "s1", items |-> 0, c_type |-> "", c_nullable |-> TRUE,
                bookkeeping_disposition |-> "skip", bare |-> FALSE]

StateFields ==
    <<Field("pipeline_name", PaString, FALSE), Field("state", PaString, FALSE),
      Field("_dlt_load_id", PaString, FALSE)>>
LoadsFields ==
    <<Field("load_id", PaString, FALSE), Field("schema_name", PaString, TRUE),
      Field("status", PaInt64, FALSE), Field("inserted_at", PaString, FALSE),
      Field("schema_version_hash", PaString, TRUE)>>

\* the row a load writes into the state table for a pipeline
StateRow(pipeline_name, load_id) ==
    [pipeline_name |-> pipeline_name, state |-> "state-" \o load_id,
     _dlt_load_id |-> load_id]

StateInit ==
    /\ TypesIdle
    /\ tm_caps = 6
    /\ tm_col = NoColumn
    /\ merge_build = "copies"
    /\ LoadIdle
    /\ PgIdle
    /\ OrphansIdle
    /\ schema = StateSchema
    /\ now = 0
    /\ ss_calls = <<>>
    /\ StateIdle
    /\ WriteIdle
    /\ RelationIdle
    /\ StorageOpIdle
    /\ LookupIdle
    /\ FollowupIdle
    /\ PgCallIdle
    \* the dataset after the schema migration: the loads table is there, the
    \* state table once the schema holds it
    /\ \E state_there \in BOOLEAN, loads_there \in BOOLEAN :
          db = [q \in QualifiedNames |->
                   CASE q = make_qualified_table_name(state_table_name)
                            /\ state_there -> Table(StateFields, <<>>)
                     [] q = make_qualified_table_name(loads_table_name)
                            /\ loads_there -> Table(LoadsFields, <<>>)
                     [] q = sentinel_table -> Table(<<>>, <<>>)
                     [] OTHER -> NoTable]

\* the load job of a pipeline state file: LanceDBLoadJob.run on the state
\* table, a dlt table, so that no id column is generated
WriteState(pipeline_name, load_id) ==
    LET fq_table_name == make_qualified_table_name(state_table_name)
        out == write_records(<<StateRow(pipeline_name, load_id)>>,
                             db[fq_table_name], StateWriteDisposition,
                             id_field_name, FALSE)
    IN  /\ Len(db[fq_table_name].rows) < MaxStateRows
        /\ db' = [db EXCEPT ![fq_table_name] = out.table]
        /\ UNCHANGED <<st_seen, othersOfState>>

\* complete_load(load_id)
complete_load(d, load_id, inserted_at) ==
    LET records == <<[load_id |-> load_id, schema_name |-> schema.name,
                      status |-> "0", inserted_at |-> inserted_at,
                      schema_version_hash |-> Null]>>
        fq_loads_table_name == make_qualified_table_name(loads_table_name)
        out == write_records(records, d[fq_loads_table_name],
                             get_write_disposition(schema, loads_table_name),
                             NoneStr, FALSE)
    IN  [d EXCEPT ![fq_loads_table_name] = out.table]

CompleteLoad(load_id) ==
    /\ Len(db[make_qualified_table_name(loads_table_name)].rows) < MaxCompleted
    /\ db' = complete_load(db, load_id, TimeStr(now))
    /\ UNCHANGED <<st_seen, othersOfState>>

StateInfo(status, info) == [status |-> status, info |-> info]

\* a lookup that leaves out the join with the loads table
get_stored_state_unjoined(d, pipeline_name) ==
    LET state_table ==
            SelectSeq(d[make_qualified_table_name(state_table_name)].rows,
                      LAMBDA r : r.pipeline_name = pipeline_name)
        newest == {r \in Range(state_table) : \A o \in Range(state_table) :
                      LoadIdRank(o["_dlt_load_id"]) <= LoadIdRank(r["_dlt_load_id"])}
    IN  IF state_table = <<>> THEN {StateInfo("ok", <<>>)}
        ELSE {StateInfo("ok", <<r>>) : r \in newest}

\* get_stored_state(pipeline_name): the outcomes the call can have.  Opening a
\* table that does not exist raises; the result is <<>> for None and otherwise
\* the first row of the join sorted by _dlt_load_id descending (any of the
\* rows of that load id, the order among them being unspecified).
get_stored_state(d, pipeline_name) ==
    LET fq_state_table_name == make_qualified_table_name(state_table_name)
        fq_loads_table_name == make_qualified_table_name(loads_table_name)
        state_table == SelectSeq(d[fq_state_table_name].rows,
                                 LAMBDA r : r.pipeline_name = pipeline_name)
        loads_table == SelectSeq(d[fq_loads_table_name].rows,
                                 LAMBDA l : l.status = "0")
        joined_table == {r \in Range(state_table) :
                            \E l \in Range(loads_table) :
                                l.load_id = r["_dlt_load_id"]}
        newest == {r \in joined_table : \A o \in joined_table :
                      LoadIdRank(o["_dlt_load_id"]) <= LoadIdRank(r["_dlt_load_id"])}
    IN  IF ~table_exists(d, fq_state_table_name) \/ ~table_exists(d, fq_loads_table_name)
        THEN {StateInfo("DestinationUndefinedEntity", <<>>)}
        ELSE IF joined_table = {} THEN {StateInfo("ok", <<>>)}
        ELSE {StateInfo("ok", <<r>>) : r \in newest}

\* a caller asks for the stored state of a pipeline
GetStoredState(pipeline_name) ==
    /\ \E result \in get_stored_state(db, pipeline_name) :
          st_seen' = [pipeline_name |-> pipeline_name, status |-> result.status,
                      info |-> result.info, parity |-> 1 - st_seen.parity]
    /\ UNCHANGED <<db, othersOfState>>

StateNext ==
    \/ \E p \in Pipelines, l \in Range(LoadIds) : WriteState(p, l)
    \/ \E l \in Range(LoadIds) : CompleteLoad(l)
    \/ \E p \in Pipelines : GetStoredState(p)

SpecState == StateInit /\ [][StateNext]_vars

(***************************************************************************)
(* The bookkeeping writes: update_schema_in_storage and complete_load on   *)
(* schemas that declare any write disposition for the standard tables      *)
(***************************************************************************)

\* the schemas of the bookkeeping model: the standard tables alone, declared
\* with each disposition write_records knows
BookkeepingSchemas ==
    {[StateSchema EXCEPT !.bookkeeping_disposition = d] : d \in SupportedDispositions}

\* what is kept of a bookkeeping write: the table before and after it and the
\* disposition it was made with
BookkeepingWrite(table_name, before, after) ==
    [NoWrite EXCEPT !.table = before, !.after = after, !.pc = "done",
                    !.write_disposition = get_write_disposition(schema, table_name)]

BookkeepingInit ==
    /\ TypesIdle
    /\ tm_caps = 6
    /\ tm_col = NoColumn
    /\ merge_build = "copies"
    /\ LoadIdle
    /\ PgIdle
    /\ OrphansIdle
    /\ schema \in BookkeepingSchemas
    /\ now = 0
    /\ ss_calls = <<>>
    /\ StateIdle
    /\ WriteIdle
    /\ RelationIdle
    /\ StorageOpIdle
    /\ LookupIdle
    /\ FollowupIdle
    /\ PgCallIdle
    \* the dataset before or after the schema migration has created the
    \* standard tables
    /\ \E version_there \in BOOLEAN, loads_there \in BOOLEAN :
          db = [q \in QualifiedNames |->
                   CASE q = make_qualified_table_name(version_table_name)
                            /\ version_there ->
                            Table(make_arrow_table_schema(schema, version_table_name,
                                                          NoneStr), <<>>)
                     [] q = make_qualified_table_name(loads_table_name)
                            /\ loads_there -> Table(LoadsFields, <<>>)
                     [] q = sentinel_table -> Table(<<>>, <<>>)
                     [] OTHER -> NoTable]

\* update_schema_in_storage()
RecordSchema ==
    LET fq_version_table_name == make_qualified_table_name(version_table_name)
    IN  /\ Len(VersionRows(db)) < MaxSchemaRecords
        /\ db' = update_schema_in_storage(db, schema, TimeStr(now)).db
        /\ wr' = BookkeepingWrite(version_table_name, db[fq_version_table_name],
                                  db'[fq_version_table_name])
        /\ UNCHANGED <<tmVars, merge_build, ldVars, pgVars, orVars, scVars, stVars, fnVars, rel, sgVars>>

\* complete_load(load_id)
RecordLoad(load_id) ==
    LET fq_loads_table_name == make_qualified_table_name(loads_table_name)
    IN  /\ Len(db[fq_loads_table_name].rows) < MaxCompleted
        /\ db' = complete_load(db, load_id, TimeStr(now))
        /\ wr' = BookkeepingWrite(loads_table_name, db[fq_loads_table_name],
                                  db'[fq_loads_table_name])
        /\ UNCHANGED <<tmVars, merge_build, ldVars, pgVars, orVars, scVars, stVars, fnVars, rel, sgVars>>

\* time passes between two writes
BookkeepingTick ==
    /\ now < MaxNow
    /\ now' = now + 1
    /\ UNCHANGED <<tmVars, db, merge_build, ldVars, pgVars, orVars, schema,
                   ss_calls, stVars, fnVars, wrVars, sgVars>>

BookkeepingNext ==
    \/ RecordSchema
    \/ \E l \in Range(LoadIds) : RecordLoad(l)
    \/ BookkeepingTick

SpecBookkeeping == BookkeepingInit /\ [][BookkeepingNext]_vars

(***************************************************************************)
(* initialize_storage, drop_storage and is_storage_initialized             *)
(***************************************************************************)

\* NULL_SCHEMA: the Arrow schema without fields
NULL_SCHEMA == <<>>

\* is_storage_initialized()
is_storage_initialized(d) == table_exists(d, sentinel_table)

\* an initialization that creates the sentinel table on every call
initialize_storage_creates(d, truncate_tables) ==
    IF table_exists(d, sentinel_table)
    THEN [db |-> d, status |-> "DestinationTransientException"]
    ELSE [db |-> [d EXCEPT ![sentinel_table] = Table(NULL_SCHEMA, <<>>)],
          status |-> "ok"]

\* a truncation that creates the listed tables again without their fields
initialize_storage_bare(d, truncate_tables) ==
    IF ~table_exists(d, sentinel_table)
    THEN [db |-> [d EXCEPT ![sentinel_table] = Table(NULL_SCHEMA, <<>>)],
          status |-> "ok"]
    ELSE [db |-> [q \in DOMAIN d |->
                    IF /\ \E t \in truncate_tables : q = make_qualified_table_name(t)
                       /\ table_exists(d, q)
                    THEN Table(NULL_SCHEMA, <<>>)
                    ELSE d[q]],
          status |-> "ok"]

\* initialize_storage(truncate_tables): the sentinel table is created when it
\* is not there; otherwise each listed table that exists is dropped and
\* created again with the schema it had
initialize_storage(d, truncate_tables) ==
    IF ~is_storage_initialized(d)
    THEN [db |-> [d EXCEPT ![sentinel_table] = Table(NULL_SCHEMA, <<>>)],
          status |-> "ok"]
    ELSE [db |-> [q \in DOMAIN d |->
                    IF /\ \E t \in truncate_tables : q = make_qualified_table_name(t)
                       /\ table_exists(d, q)
                    THEN Table(d[q].fields, <<>>)
                    ELSE d[q]],
          status |-> "ok"]

\* str.startswith on names of parts
StartsWith(name, prefix) ==
    Len(name) >= Len(prefix) /\ SubSeq(name, 1, Len(prefix)) = prefix

\* a listing that takes every table of the database for the dataset's
get_table_names_unfiltered(d) == table_names(d) \ {sentinel_table}

\* _get_table_names(): the tables whose name starts with the dataset name and
\* the separator (every table when the client has no dataset name), but the
\* sentinel table
get_table_names(d) ==
    (IF dataset_name # ""
     THEN {q \in table_names(d) : StartsWith(q, <<dataset_name, dataset_separator>>)}
     ELSE table_names(d)) \ {sentinel_table}

\* drop_storage(): the outcomes the call can have.  Every table of the dataset
\* is dropped and then the sentinel table; dropping a sentinel table that is
\* not there raises, with the class the store's error is translated to
drop_storage(d) ==
    LET dropped == [q \in DOMAIN d |->
                       IF q \in get_table_names(d) THEN NoTable ELSE d[q]]
    IN  IF table_exists(d, sentinel_table)
        THEN {[db |-> [dropped EXCEPT ![sentinel_table] = NoTable], status |-> "ok"]}
        ELSE {[db |-> dropped, status |-> e] :
                 e \in {"DestinationUndefinedEntity", "DestinationTransientException"}}

TruncateTables == {{}, {ItemsTable}, {ItemsTable, version_table_name}}

\* tables of other datasets of the database: of the dataset other, and of the
\* dataset ds___x, whose name starts with the client's dataset name and the
\* separator
OtherDatasetTables ==
    {<<"other", dataset_separator, "items">>,
     <<dataset_name, dataset_separator, "x", dataset_separator, "items">>}

StorageInit ==
    /\ TypesIdle
    /\ tm_caps = 6
    /\ tm_col = NoColumn
    /\ merge_build = "copies"
    \* the client's dataset holds no table yet; the other datasets may
    /\ \E others \in SUBSET OtherDatasetTables :
          db = [q \in QualifiedNames \cup OtherDatasetTables |->
                   IF q \in others
                   THEN Table(<<Field("a", PaString, TRUE)>>, <<[a |-> "a1"]>>)
                   ELSE NoTable]
    /\ LoadIdle
    /\ PgIdle
    /\ OrphansIdle
    /\ schema \in Schemas
    /\ now = 0
    /\ ss_calls = <<>>
    /\ StateIdle
    /\ WriteIdle
    /\ RelationIdle
    /\ StorageOpIdle
    /\ LookupIdle
    /\ FollowupIdle
    /\ PgCallIdle

StorageOp(op, status, result, before, created) ==
    [op |-> op, status |-> status, result |-> result, before |-> before,
     created |-> created]

InitializeStorage(truncate_tables) ==
    LET out == initialize_storage(db, truncate_tables)
    IN  /\ db' = out.db
        /\ sg' = StorageOp("initialize_storage", out.status, FALSE,
                           table_exists(db, sentinel_table),
                           out.db[sentinel_table] # db[sentinel_table])
        /\ ss_calls' = <<>>
        /\ UNCHANGED <<tmVars, merge_build, ldVars, pgVars, orVars, schema, now,
                       stVars, fnVars, wrVars, lk>>

DropStorage ==
    \E out \in drop_storage(db) :
        /\ db' = out.db
        /\ sg' = StorageOp("drop_storage", out.status, FALSE,
                           table_exists(db, sentinel_table), FALSE)
        /\ ss_calls' = <<>>
        /\ UNCHANGED <<tmVars, merge_build, ldVars, pgVars, orVars, schema, now,
                       stVars, fnVars, wrVars, lk>>

IsStorageInitialized ==
    /\ sg' = StorageOp("is_storage_initialized", "ok", is_storage_initialized(db),
                       table_exists(db, sentinel_table), FALSE)
    /\ UNCHANGED <<tmVars, db, merge_build, ldVars, pgVars, orVars, scVars,
                   stVars, fnVars, wrVars, lk>>

\* the client's other calls on the dataset: the schema update, a load of the
\* items table, a direct schema record write
StorageNext ==
    \/ \E t \in TruncateTables : InitializeStorage(t)
    \/ DropStorage
    \/ IsStorageInitialized
    \/ UpdateStoredSchema({}, "none")
    \/ LoadItems
    \/ UpdateSchemaInStorage

SpecStorage == StorageInit /\ [][StorageNext]_vars

(***************************************************************************)
(* The lookups of stored schemas and stored state                          *)
(***************************************************************************)

\* the schemas a client of the lookup model is handed: one content under two
\* names
LookupSchemas == {StateSchema, [StateSchema EXCEPT !.name = "s2"]}

LookupsInit ==
    /\ TypesIdle
    /\ tm_caps = 6
    /\ tm_col = NoColumn
    /\ merge_build = "copies"
    /\ LoadIdle
    /\ PgIdle
    /\ OrphansIdle
    /\ schema = StateSchema
    /\ now = 0
    /\ ss_calls = <<>>
    /\ StateIdle
    /\ WriteIdle
    /\ RelationIdle
    /\ StorageOpIdle
    /\ LookupIdle
    /\ FollowupIdle
    /\ PgCallIdle
    \* a dataset before or after the schema migration has created the tables
    /\ \E there \in BOOLEAN :
          db = [q \in QualifiedNames |->
                   CASE q = make_qualified_table_name(state_table_name) /\ there ->
                            Table(StateFields, <<>>)
                     [] q = make_qualified_table_name(loads_table_name) /\ there ->
                            Table(LoadsFields, <<>>)
                     [] q = make_qualified_table_name(version_table_name) /\ there ->
                            Table(make_arrow_table_schema(schema, version_table_name,
                                                          NoneStr), <<>>)
                     [] q = sentinel_table -> Table(<<>>, <<>>)
                     [] OTHER -> NoTable]

Lookup(op, key, result, matches, opened) ==
    [op |-> op, key |-> key, status |-> result.status, info |-> result.info,
     matches |-> matches, opened |-> opened]

LookupFrame ==
    UNCHANGED <<tmVars, db, merge_build, ldVars, pgVars, orVars, scVars, stVars, fnVars,
                wrVars, sg>>

\* a caller asks for the newest stored schema of the client's schema name
GetStoredSchema ==
    /\ lk' = Lookup("get_stored_schema", schema.name, get_stored_schema(db, schema),
                    Len(SelectSeq(VersionRows(db),
                                  LAMBDA r : r.schema_name = schema.name)),
                    table_exists(db, make_qualified_table_name(version_table_name)))
    /\ LookupFrame

\* a caller asks for the stored schema of a hash
GetStoredSchemaByHash(schema_hash) ==
    /\ lk' = Lookup("get_stored_schema_by_hash", schema_hash,
                    get_stored_schema_by_hash(db, schema_hash),
                    Len(SelectSeq(VersionRows(db),
                                  LAMBDA r : r.version_hash = schema_hash)),
                    table_exists(db, make_qualified_table_name(version_table_name)))
    /\ LookupFrame

\* a caller asks for the stored state of a pipeline
LookupStoredState(pipeline_name) ==
    /\ \E result \in get_stored_state(db, pipeline_name) :
          lk' = Lookup("get_stored_state", pipeline_name, result,
                       Cardinality(
                           {r \in Range(db[make_qualified_table_name(state_table_name)].rows) :
                               /\ r.pipeline_name = pipeline_name
                               /\ \E l \in Range(db[make_qualified_table_name(loads_table_name)].rows) :
                                     l.status = "0" /\ l.load_id = r["_dlt_load_id"]}),
                       /\ table_exists(db, make_qualified_table_name(state_table_name))
                       /\ table_exists(db, make_qualified_table_name(loads_table_name)))
    /\ LookupFrame

LookupsNext ==
    \/ \E s \in LookupSchemas : SetSchema(s)
    \/ UpdateSchemaInStorage
    \/ \E p \in Pipelines, l \in {LoadIds[1], LoadIds[2]} : WriteState(p, l)
    \/ \E l \in {LoadIds[1], LoadIds[2]} : CompleteLoad(l)
    \/ GetStoredSchema
    \/ \E s \in LookupSchemas : GetStoredSchemaByHash(version_hash(s))
    \/ \E p \in Pipelines : LookupStoredState(p)

SpecLookups == LookupsInit /\ [][LookupsNext]_vars

(***************************************************************************)
(* ReadableDBAPIRelation                                                   *)
(***************************************************************************)

\* the column names a caller may select and naming.normalize_identifier on
\* them (snake case: lower case)
ColumnNames == {"a", "A", "b", "unknown_columns"}
normalize_identifier(c) == IF c = "A" THEN "a" ELSE c
\* sql_client.escape_column_name and sql_client.make_qualified_table_name
escape_column_name(c) == "\"" \o c \o "\""
sql_qualified_table_name(table_name) ==
    "\"pipeline_dataset\".\"" \o table_name \o "\""

\* the limits a caller passes
Limits == {0, 1, 24}
\* the selections a caller passes
Selections == {<<>>, <<"a">>, <<"A", "b">>, <<"b", "a">>, <<"unknown_columns">>}

\* ReadableDBAPIRelation(...): the arguments the constructor keeps
Relation(provided_query, table_name, has_schema, schema_columns, limit, selected_columns) ==
    [provided_query |-> provided_query, table_name |-> table_name,
     schema_columns |-> schema_columns, has_schema |-> has_schema,
     limit |-> limit, selected_columns |-> selected_columns]

\* the outcome of a call on a relation: the exception raised ("ok" when it
\* returned) and the relation returned (NoRelation when it raised)
RelationOutcome(status, result) == [status |-> status, result |-> result]

RECURSIVE JoinColumns(_)
\* ",".join of the escaped normalized column names
JoinColumns(columns) ==
    IF columns = <<>> THEN ""
    ELSE escape_column_name(normalize_identifier(Head(columns)))
            \o (IF Tail(columns) = <<>> THEN "" ELSE ",")
            \o JoinColumns(Tail(columns))

\* the query property
query(r) ==
    IF r.provided_query # "" THEN r.provided_query
    ELSE LET maybe_limit_clause ==
                 IF r.limit # None /\ r.limit # 0
                 THEN "LIMIT " \o ToString(r.limit) ELSE ""
             selector ==
                 IF r.selected_columns # <<>> THEN JoinColumns(r.selected_columns)
                 ELSE "*"
         IN  "SELECT " \o selector \o " FROM "
                \o sql_qualified_table_name(r.table_name) \o " " \o maybe_limit_clause

\* the computed_schema_columns property: the exception raised ("ok" when it
\* returned), whether it returned None, and the columns it returned.  A
\* selected column the schema does not hold fails the assert, and the
\* dictionary access when asserts are compiled out
computed_schema_columns(r, assertions) ==
    IF ~r.has_schema \/ r.schema_columns = {}
    THEN [status |-> "ok", none |-> TRUE, columns |-> {}]
    ELSE IF r.selected_columns = <<>>
    THEN [status |-> "ok", none |-> FALSE, columns |-> r.schema_columns]
    ELSE IF \E i \in DOMAIN r.selected_columns :
               normalize_identifier(r.selected_columns[i]) \notin r.schema_columns
    THEN [status |-> IF assertions THEN "AssertionError" ELSE "KeyError",
          none |-> FALSE, columns |-> {}]
    ELSE [status |-> "ok", none |-> FALSE,
          columns |-> {normalize_identifier(r.selected_columns[i]) :
                          i \in DOMAIN r.selected_columns}]

\* a copy that carries the table and its schema but none of the settings
copy_fresh(r) ==
    Relation(r.provided_query, r.table_name, r.has_schema, r.schema_columns,
             None, <<>>)

\* __copy__()
copy(r) ==
    Relation(r.provided_query, r.table_name, r.has_schema, r.schema_columns,
             r.limit, r.selected_columns)

\* limit(limit): the assert on the provided query, when asserts are compiled in
limit(r, n, assertions) ==
    IF assertions /\ r.provided_query # ""
    THEN RelationOutcome("AssertionError", NoRelation)
    ELSE RelationOutcome("ok", [copy(r) EXCEPT !.limit = n])

\* select(selected_columns)
select(r, selected_columns, assertions) ==
    IF assertions /\ r.provided_query # ""
    THEN RelationOutcome("AssertionError", NoRelation)
    ELSE LET new == [copy(r) EXCEPT !.selected_columns = selected_columns]
             checked == computed_schema_columns(new, assertions)
         IN  IF checked.status # "ok" THEN RelationOutcome(checked.status, NoRelation)
             ELSE RelationOutcome("ok", new)

\* head()
head(r, assertions) ==
    IF assertions /\ r.provided_query # ""
    THEN RelationOutcome("AssertionError", NoRelation)
    ELSE limit(r, 5, assertions)

\* the relations a dataset hands out: dataset(query) and dataset.my_table,
\* with or without a schema that knows the table's columns a and b
DatasetRelations ==
    {Relation("SELECT * FROM something", "", FALSE, {}, None, <<>>)}
    \cup {Relation("", "my_table", h, IF h THEN {"a", "b"} ELSE {}, None, <<>>) :
             h \in BOOLEAN}

RelationInit ==
    /\ TypesIdle
    /\ tm_caps = 6
    /\ tm_col = NoColumn
    /\ StorageIdle
    /\ LoadIdle
    /\ PgIdle
    /\ OrphansIdle
    /\ SchemaIdle
    /\ StateIdle
    /\ WriteIdle
    /\ StorageOpIdle
    /\ LookupIdle
    /\ FollowupIdle
    /\ PgCallIdle
    \* the interpreter runs with asserts compiled in, or with -O without them
    /\ \E r \in DatasetRelations, assertions \in BOOLEAN :
          rel = [self |-> r, op |-> "none", arg_limit |-> None,
                 arg_columns |-> <<>>, status |-> "none",
                 result |-> NoRelation, assertions |-> assertions]

RelationCall(op, arg_limit, arg_columns, out) ==
    /\ rel' = [rel EXCEPT !.op = op, !.arg_limit = arg_limit,
                          !.arg_columns = arg_columns,
                          !.status = out.status, !.result = out.result]
    /\ UNCHANGED othersOfRelation

CallLimit(n) == RelationCall("limit", n, <<>>, limit(rel.self, n, rel.assertions))
CallHead == RelationCall("head", None, <<>>, head(rel.self, rel.assertions))
CallSelect(selected_columns) ==
    RelationCall("select", None, selected_columns,
                 select(rel.self, selected_columns, rel.assertions))

\* the caller goes on with the relation the last call returned
Chain ==
    /\ rel.status = "ok"
    /\ rel.result # rel.self
    /\ rel' = [rel EXCEPT !.self = rel.result, !.op = "none", !.arg_limit = None,
                          !.arg_columns = <<>>, !.status = "none",
                          !.result = NoRelation]
    /\ UNCHANGED othersOfRelation

RelationNext ==
    \/ \E n \in Limits : CallLimit(n)
    \/ CallHead
    \/ \E c \in Selections : CallSelect(c)
    \/ Chain

SpecRelation == RelationInit /\ [][RelationNext]_vars

\* The logical column types and the precisions / scales handed to the mapper.
DataTypes ==
    {"text", "double", "bool", "bigint", "binary", "date", "complex",
     "decimal", "wei", "timestamp", "time"}
Precisions == {None, 3, 6, 9, 38}
Scales == {None, 0, 18}

\* precision and scale a column of the type may declare
AcceptedColumns ==
    {c \in [data_type : DataTypes, precision : Precisions, scale : Scales] :
        /\ c.data_type \in {"decimal", "wei"} \/ c.scale = None
        /\ c.data_type \in {"decimal", "wei", "timestamp", "time", "bigint", "text", "binary"}
              \/ c.precision = None
        /\ c.scale # None => c.precision # None}

TypesInit ==
    /\ tm_caps \in {0, 3, 6, 9}
    /\ tm_col \in AcceptedColumns
    /\ TypesIdle
    /\ StorageIdle
    /\ LoadIdle
    /\ PgIdle
    /\ OrphansIdle
    /\ SchemaIdle
    /\ StateIdle
    /\ WriteIdle
    /\ RelationIdle
    /\ StorageOpIdle
    /\ LookupIdle
    /\ FollowupIdle
    /\ PgCallIdle

\* make_arrow_field_schema: the column goes to its native Arrow type
MapToNative ==
    /\ tm_pc = "start"
    /\ tm_native' = to_db_type(tm_caps, tm_col)
    /\ tm_pc' = IF tm_native' \in {PaKeyError, PaValueError} THEN "failed" ELSE "mapped"
    /\ UNCHANGED <<tm_caps, tm_col, tm_back, othersOfTypes>>

\* get_storage_table: the native type of the stored field goes back
MapFromNative ==
    /\ tm_pc = "mapped"
    /\ tm_back' = from_db_type(tm_native, None, None)
    /\ tm_pc' = "done"
    /\ UNCHANGED <<tm_caps, tm_col, tm_native, othersOfTypes>>

TypesNext == MapToNative \/ MapFromNative

SpecTypes == TypesInit /\ [][TypesNext]_vars

Lossless(caps, c) ==
    \/ /\ c.data_type \in {"text", "double", "bool", "bigint", "binary", "date"}
       /\ c.precision = None
       /\ c.scale = None
    \/ /\ c.data_type = "timestamp"
       /\ c.precision = caps
       /\ c.scale = None
    \/ /\ c.data_type = "time"
       /\ c.precision = caps
       /\ caps \in {6, 9}
       /\ c.scale = None
    \/ /\ c.data_type = "decimal"
       /\ c.precision # None
       /\ c.scale # None
       /\ <<c.precision, c.scale>> # <<WeiPrecision, WeiScale>>

RootFile == PathOf(ItemsTable)
RootFile2 == ItemsTable \o <<"2.parquet">>
OtherFile == PathOf(<<"other">>)
ChainFiles == {RootFile, RootFile2, PathOf(SubTable), PathOf(LeafTable), OtherFile}

\* a table of a chain: its name and its write disposition
ChainTable(name, write_disposition) ==
    [name |-> name, write_disposition |-> write_disposition]

\* the table chains: the root table and its nested tables in schema order
TableChains ==
    {<<ChainTable(ItemsTable, d)>> : d \in Dispositions}
    \cup {<<ChainTable(ItemsTable, d), ChainTable(SubTable, d)>> : d \in Dispositions}
    \cup {<<ChainTable(ItemsTable, d), ChainTable(SubTable, d),
            ChainTable(LeafTable, d)>> : d \in Dispositions}

\* Bound of the follow-up model: completed jobs handed to the call.
MaxCompletedJobs == 3

\* the completed jobs of a chain, in the order the loader lists them: no file
\* twice, and at least the job whose completion completed the chain
CompletedJobs(table_chain) ==
    {jobs \in SeqsUpTo(ChainFiles, MaxCompletedJobs) :
        /\ \A i, j \in DOMAIN jobs : i # j => jobs[i] # jobs[j]
        /\ \E i \in DOMAIN jobs, t \in DOMAIN table_chain :
              ParsedTableName(jobs[i]) = table_chain[t].name}

\* a request that lists the files in the order of the completed jobs
create_table_chain_completed_followup_jobs_unordered(table_chain, completed_table_chain_jobs) ==
    IF table_chain[1].write_disposition = "merge"
    THEN LET all_job_paths_ordered ==
                 SelectSeq(completed_table_chain_jobs,
                           LAMBDA job : \E t \in DOMAIN table_chain :
                                           ParsedTableName(job) = table_chain[t].name)
         IN  [status |-> "ok",
              jobs |-> <<[file_name |-> all_job_paths_ordered[1],
                          references |-> all_job_paths_ordered]>>]
    ELSE [status |-> "ok", jobs |-> <<>>]

\* create_table_chain_completed_followup_jobs: for a chain whose first table
\* is merged, one reference request named after its first file; the files are
\* listed table by table in the order of the chain
create_table_chain_completed_followup_jobs(table_chain, completed_table_chain_jobs) ==
    IF table_chain[1].write_disposition = "merge"
    THEN LET all_job_paths_ordered ==
                 Concat([t \in DOMAIN table_chain |->
                            SelectSeq(completed_table_chain_jobs,
                                      LAMBDA job : ParsedTableName(job) = table_chain[t].name)])
         IN  IF all_job_paths_ordered = <<>>
             THEN [status |-> "IndexError", jobs |-> <<>>]
             ELSE [status |-> "ok",
                   jobs |-> <<[file_name |-> all_job_paths_ordered[1],
                               references |-> all_job_paths_ordered]>>]
    ELSE [status |-> "ok", jobs |-> <<>>]

FollowupInit ==
    /\ TypesIdle
    /\ tm_caps = 6
    /\ tm_col = NoColumn
    /\ StorageIdle
    /\ LoadIdle
    /\ PgIdle
    /\ OrphansIdle
    /\ SchemaIdle
    /\ StateIdle
    /\ WriteIdle
    /\ RelationIdle
    /\ StorageOpIdle
    /\ LookupIdle
    /\ PgCallIdle
    /\ \E table_chain \in TableChains :
          \E completed \in CompletedJobs(table_chain) :
              fu = [NoFollowup EXCEPT !.table_chain = table_chain,
                                      !.completed = completed,
                                      !.status = "called"]

\* the loader asks the client for the follow-up jobs of the completed chain
CreateFollowupJobs ==
    /\ fu.status = "called"
    /\ LET out == create_table_chain_completed_followup_jobs(fu.table_chain, fu.completed)
       IN  fu' = [fu EXCEPT !.status = out.status, !.jobs = out.jobs]
    /\ UNCHANGED <<tmVars, db, merge_build, ldVars, pgVars, orVars, scVars, stVars, wrVars, sgVars, pj>>

FollowupNext == CreateFollowupJobs

SpecFollowup == FollowupInit /\ [][FollowupNext]_vars

(***************************************************************************)
(* LanceDBRemoveOrphansJob on a lineage with two batch files of the root   *)
(***************************************************************************)
\* the lineage references of a chain whose root table was loaded from two
\* batch files, in the orders the completed jobs can have
RootFileLineages ==
    {<<RootFile, RootFile2>>, <<RootFile2, RootFile>>,
     <<RootFile, RootFile2, PathOf(SubTable)>>}

\* the root table was loaded from two batch files, the child table from one:
\* the tables hold the rows of earlier loads and the rows of every batch file
RootFilesInit ==
    /\ TypesIdle
    /\ tm_caps = 6
    /\ tm_col = NoColumn
    /\ merge_build = "copies"
    /\ LoadIdle
    /\ PgIdle
    /\ SchemaIdle
    /\ StateIdle
    /\ WriteIdle
    /\ RelationIdle
    /\ StorageOpIdle
    /\ LookupIdle
    /\ FollowupIdle
    /\ PgCallIdle
    /\ \E oldR \in SUBSET RootIds, newR \in SUBSET RootIds, newR2 \in SUBSET RootIds,
          oldS \in SUBSET SubIds, newS \in SUBSET SubIds :
          \* a row is written to one batch file, and the rows of the child
          \* batch belong to the rows of the root batches
          /\ newR \cap newR2 = {}
          /\ \A i \in newS : ParentId[i] \in newR \cup newR2
          /\ or_files = [f \in {RootFile, RootFile2, PathOf(SubTable)} |->
                            BatchFile(ParsedTableName(f),
                                      CASE f = RootFile -> newR
                                        [] f = RootFile2 -> newR2
                                        [] OTHER -> newS)]
          /\ db = [q \in QualifiedNames |->
                      CASE q = make_qualified_table_name(ItemsTable) ->
                              LoadedTable(ItemsTable, oldR, newR \cup newR2)
                        [] q = make_qualified_table_name(SubTable) ->
                              LoadedTable(SubTable, oldS, newS)
                        [] OTHER -> NoTable]
    /\ or_old = db
    /\ \E refs \in RootFileLineages :
          or_job = [references |-> refs, pos |-> 1, state |-> "running",
                    status |-> "none", writes |-> <<>>]

RootFilesNext == ProcessReference

SpecRootFiles == RootFilesInit /\ [][RootFilesNext]_vars

(***************************************************************************)
(* PostgresClient.create_load_job                                          *)
(***************************************************************************)

GEOMETRY_HINT == "x-postgres-geometry"

\* the columns of a prepared table: a column either lacks the geometry hint
\* or carries it with a true or a false value
HintValues == {NoneStr, "True", "False"}
GeometryTables ==
    {[columns |-> <<[name |-> "a", hint |-> ha], [name |-> "geom", hint |-> hg]>>] :
        ha \in HintValues, hg \in HintValues}

\* column.get(GEOMETRY_HINT), taken as a condition
HasGeometryHint(column) == column.hint = "True"

\* the loader file formats; a job file is <table name, ..., format>
FileFormats == {"insert_values", "csv", "sql", "parquet", "jsonl", "reference"}
\* file_path.endswith(suffix): of the file formats only the format itself
\* ends with insert_values or with csv
EndsWith(file_path, suffix) == file_path[Len(file_path)] = suffix

\* InsertValuesJobClient.create_load_job: the SQL job of the base client for
\* a sql file, the insert job for an insert_values file, else no job
base_create_load_job(table, file_path) ==
    CASE EndsWith(file_path, "sql") -> "SqlLoadJob"
      [] EndsWith(file_path, "insert_values") -> "InsertValuesLoadJob"
      [] OTHER -> NoneStr

\* a create_load_job that looks at the file before it looks at the table
create_load_job_by_file(table, file_path) ==
    LET job == base_create_load_job(table, file_path)
    IN  IF job = NoneStr /\ EndsWith(file_path, "csv")
        THEN [status |-> "ok", job |-> "PostgresCsvCopyJob"]
        ELSE [status |-> "ok", job |-> job]

\* PostgresClient.create_load_job(table, file_path, load_id, restore)
create_load_job(table, file_path) ==
    IF \E i \in DOMAIN table.columns : HasGeometryHint(table.columns[i])
    THEN IF EndsWith(file_path, "insert_values")
         THEN [status |-> "ok", job |-> "PostgresInsertValuesWithGeometryTypesLoadJob"]
         ELSE [status |-> "TerminalValueError", job |-> NoneStr]
    ELSE LET job == base_create_load_job(table, file_path)
         IN  IF job = NoneStr /\ EndsWith(file_path, "csv")
             THEN [status |-> "ok", job |-> "PostgresCsvCopyJob"]
             ELSE [status |-> "ok", job |-> job]

\* every part of the model but the Postgres call is idle
OnlyPgCall ==
    /\ TypesIdle
    /\ tm_caps = 6
    /\ tm_col = NoColumn
    /\ StorageIdle
    /\ LoadIdle
    /\ PgIdle
    /\ OrphansIdle
    /\ SchemaIdle
    /\ StateIdle
    /\ WriteIdle
    /\ RelationIdle
    /\ StorageOpIdle
    /\ LookupIdle
    /\ FollowupIdle

CreateJobInit ==
    /\ OnlyPgCall
    /\ \E table \in GeometryTables, format \in FileFormats, restore \in BOOLEAN :
          pj = [op |-> "create_load_job", status |-> "called", table |-> table,
                file_path |-> <<"items", format>>, restore |-> restore,
                job |-> NoneStr]

\* the loader asks the client for the job of a file
CreateLoadJob ==
    /\ pj.op = "create_load_job"
    /\ pj.status = "called"
    /\ LET out == create_load_job(pj.table, pj.file_path)
       IN  pj' = [pj EXCEPT !.status = out.status, !.job = out.job]
    /\ UNCHANGED <<tmVars, db, merge_build, ldVars, pgVars, orVars, scVars, stVars, wrVars, sgVars, fu>>

CreateJobNext == CreateLoadJob

SpecCreateJob == CreateJobInit /\ [][CreateJobNext]_vars

(***************************************************************************)
(* PostgresCsvCopyJob                                                      *)
(***************************************************************************)

\* the columns of the target table, in schema order
CsvColumn(name, nullable) == [name |-> name, nullable |-> nullable]
CsvTables ==
    {<<CsvColumn("a", FALSE), CsvColumn("b", TRUE)>>,
     <<CsvColumn("a", FALSE), CsvColumn("b", TRUE), CsvColumn("c", TRUE)>>}

\* A value of the first line as it stands in the file, cut at the delimiter:
\* a plain value is one piece, a quoted text that holds the delimiter is two.
PlainValue == <<"1">>
QuotedValue == <<"\"p", "q\"">>
\* the values of a header line: column names, bare or quoted, known or not
HeaderValues == {<<"a">>, <<"\"b\"">>, <<"c">>, <<"zz">>}

\* Bound of the csv model: values of the first line.
MaxCsvValues == 4

\* the first lines a file can start with
FirstLines(include_header) ==
    {l \in SeqsUpTo(IF include_header THEN HeaderValues
                    ELSE {PlainValue, QuotedValue}, MaxCsvValues) : l # <<>>}

\* f.readline().decode(encoding).strip().split(sep): the pieces of the line
\* between the delimiters
SplitLine(line) == Concat(line)

\* h.strip('"')
StripQuotes(h) == IF h = "\"b\"" THEN "b" ELSE h

\* what Postgres does with COPY table (headers) FROM STDIN: every row must
\* hold one value per listed column, else the statement fails and the
\* transaction is rolled back
copy_expert(headers, rows) ==
    IF \A i \in DOMAIN rows : Len(rows[i]) = Len(headers)
    THEN [status |-> "ok", copied |-> Len(rows)]
    ELSE [status |-> "DataError", copied |-> 0]

\* PostgresCsvCopyJob.run on a file that starts with first_line; no COPY is
\* issued when the validation of the first line fails
csv_copy_run(include_header, first_line, columns) ==
    LET column_names == [i \in DOMAIN columns |-> columns[i].name]
        split_first_row == SplitLine(first_line)
        too_many == ~include_header /\ Len(split_first_row) > Len(column_names)
        split_headers ==
            IF include_header THEN SplitLine(first_line)
            ELSE IF Len(split_first_row) < Len(column_names)
            THEN SubSeq(column_names, 1, Len(split_first_row))
            ELSE column_names
        escaped == [i \in DOMAIN split_headers |->
                       escape_column_name(StripQuotes(split_headers[i]))]
        split_columns == [i \in DOMAIN columns |-> escape_column_name(columns[i].name)]
        split_null_headers ==
            SelectSeq(split_columns,
                      LAMBDA c : /\ c \in Range(escaped)
                                 /\ \E i \in DOMAIN columns :
                                       /\ escape_column_name(columns[i].name) = c
                                       /\ columns[i].nullable)
        split_unknown_headers == Range(escaped) \ Range(split_columns)
        \* the rows the COPY reads: the header line has been read, the first
        \* line of a headerless file is streamed again
        rows == IF include_header THEN <<>> ELSE <<first_line>>
        done == copy_expert(escaped, rows)
    IN  IF too_many \/ split_unknown_headers # {}
        THEN [status |-> "DestinationInvalidFileFormat", issued |-> FALSE,
              headers |-> <<>>, force_null |-> <<>>, copied |-> 0]
        ELSE [status |-> done.status, issued |-> TRUE, headers |-> escaped,
              force_null |-> split_null_headers, copied |-> done.copied]

CsvCopyInit ==
    /\ OnlyPgCall
    /\ \E include_header \in BOOLEAN, columns \in CsvTables :
          \E first_line \in FirstLines(include_header) :
              pj = [op |-> "csv_copy", status |-> "called",
                    include_header |-> include_header, first_line |-> first_line,
                    columns |-> columns, issued |-> FALSE, headers |-> <<>>,
                    force_null |-> <<>>, copied |-> 0]

\* the job runs
RunCsvCopyJob ==
    /\ pj.op = "csv_copy"
    /\ pj.status = "called"
    /\ LET out == csv_copy_run(pj.include_header, pj.first_line, pj.columns)
       IN  pj' = [pj EXCEPT !.status = out.status, !.issued = out.issued,
                            !.headers = out.headers, !.force_null = out.force_null,
                            !.copied = out.copied]
    /\ UNCHANGED <<tmVars, db, merge_build, ldVars, pgVars, orVars, scVars, stVars, wrVars, sgVars, fu>>

CsvCopyNext == RunCsvCopyJob

SpecCsvCopy == CsvCopyInit /\ [][CsvCopyNext]_vars

(***************************************************************************)
(* PostgresInsertValuesWithGeometryTypesLoadJob                            *)
(***************************************************************************)
\* a text is the sequence of its characters

\* Body of the value of the expression value, which is computed once
With(value, Body(_)) == CHOOSE result \in {Body(v) : v \in {value}} : TRUE

\* str.strip, str.lstrip and str.rstrip of the characters chars
RECURSIVE lstrip(_, _)
lstrip(text, chars) ==
    IF text # <<>> /\ Head(text) \in chars THEN lstrip(Tail(text), chars) ELSE text
RECURSIVE rstrip(_, _)
rstrip(text, chars) ==
    IF text # <<>> /\ text[Len(text)] \in chars
    THEN rstrip(SubSeq(text, 1, Len(text) - 1), chars) ELSE text
Whitespace == {" ", "\n"}
strip(text) == With(lstrip(text, Whitespace), LAMBDA stripped : rstrip(stripped, Whitespace))

\* str.upper on the letters the fragments are written with
UpperOf(char) ==
    CASE char = "a" -> "A" [] char = "b" -> "B" [] char = "i" -> "I"
      [] char = "n" -> "N" [] char = "o" -> "O" [] char = "s" -> "S"
      [] char = "e" -> "E" [] char = "r" -> "R" [] char = "t" -> "T"
      [] OTHER -> char
upper(text) == [i \in DOMAIN text |-> UpperOf(text[i])]

\* str.join
RECURSIVE join(_, _)
join(separator, texts) ==
    IF texts = <<>> THEN <<>>
    ELSE IF Len(texts) = 1 THEN texts[1]
    ELSE With(Tail(texts), LAMBDA rest : texts[1] \o separator \o join(separator, rest))

SqlNullText == <<"N", "U", "L", "L">>

\* _clean_value(value)
clean_value(value) ==
    With(strip(value), LAMBDA stripped :
        With(lstrip(stripped, {"("}), LAMBDA opened :
            With(rstrip(opened, {")"}), LAMBDA closed : strip(closed))))

\* _parse_value(value)
parse_value(value) ==
    With(clean_value(value), LAMBDA cleaned :
        IF cleaned = <<>> \/ cleaned = SqlNullText THEN SqlNullText
        ELSE IF StartsWith(cleaned, <<"E", "'">>) /\ EndsWith(cleaned, "'")
        THEN SubSeq(cleaned, 3, Len(cleaned) - 1)
        ELSE IF StartsWith(cleaned, <<"'">>) /\ EndsWith(cleaned, "'")
        THEN SubSeq(cleaned, 2, Len(cleaned) - 1)
        ELSE cleaned)

\* one round of the loop of _split_fragment_to_records
RecordsStep(st, char) ==
    IF st.escape_next
    THEN [st EXCEPT !.current_record = Append(@, char), !.escape_next = FALSE]
    ELSE IF char = "\\"
    THEN [st EXCEPT !.escape_next = TRUE, !.current_record = Append(@, char)]
    ELSE IF char = "'"
    THEN [st EXCEPT !.in_quote = ~@, !.current_record = Append(@, char)]
    ELSE IF char = "(" /\ ~st.in_quote
    THEN IF st.paren_count + 1 = 1
         THEN [st EXCEPT !.paren_count = @ + 1]
         ELSE [st EXCEPT !.paren_count = @ + 1, !.current_record = Append(@, char)]
    ELSE IF char = ")" /\ ~st.in_quote
    THEN IF st.paren_count - 1 = 0
         THEN [st EXCEPT !.paren_count = @ - 1,
                         !.records = Append(@, st.current_record),
                         !.current_record = <<>>]
         ELSE [st EXCEPT !.paren_count = @ - 1, !.current_record = Append(@, char)]
    ELSE IF st.paren_count > 0 \/ st.in_quote
    THEN [st EXCEPT !.current_record = Append(@, char)]
    ELSE st

\* the loop from the character i on, in the state st of its variables
RECURSIVE RecordsLoop(_, _, _)
RecordsLoop(text, i, st) ==
    IF i > Len(text) THEN st
    ELSE With(RecordsStep(st, text[i]), LAMBDA after : RecordsLoop(text, i + 1, after))

\* _split_fragment_to_records(text)
split_fragment_to_records(text) ==
    With(strip(rstrip(strip(text), {";"})), LAMBDA stripped :
        RecordsLoop(stripped, 1,
                    [records |-> <<>>, current_record |-> <<>>, paren_count |-> 0,
                     in_quote |-> FALSE, escape_next |-> FALSE]).records)

\* one round of the loop of _split_record_to_datums
DatumsStep(st, char) ==
    IF st.escape_next
    THEN [st EXCEPT !.current = Append(@, char), !.escape_next = FALSE]
    ELSE IF char = "\\"
    THEN [st EXCEPT !.escape_next = TRUE, !.current = Append(@, char)]
    ELSE IF char = "'"
    THEN [st EXCEPT !.in_quote = ~@, !.current = Append(@, char)]
    ELSE IF char = "["
    THEN [st EXCEPT !.in_array = TRUE, !.current = Append(@, char)]
    ELSE IF char = "]"
    THEN [st EXCEPT !.in_array = FALSE, !.current = Append(@, char)]
    ELSE IF char = "(" /\ ~st.in_quote
    THEN [st EXCEPT !.paren_count = @ + 1, !.current = Append(@, char)]
    ELSE IF char = ")" /\ ~st.in_quote
    THEN [st EXCEPT !.paren_count = @ - 1, !.current = Append(@, char)]
    ELSE IF char = "," /\ ~st.in_quote /\ st.paren_count = 0 /\ ~st.in_array
    THEN [st EXCEPT !.values = Append(@, parse_value(st.current)), !.current = <<>>]
    ELSE [st EXCEPT !.current = Append(@, char)]

\* the loop from the character i on, in the state st of its variables
RECURSIVE DatumsLoop(_, _, _)
DatumsLoop(record, i, st) ==
    IF i > Len(record) THEN st
    ELSE With(DatumsStep(st, record[i]), LAMBDA after : DatumsLoop(record, i + 1, after))

\* _split_record_to_datums(record)
split_record_to_datums(record) ==
    With(DatumsLoop(record, 1,
                    [values |-> <<>>, current |-> <<>>, paren_count |-> 0,
                     in_quote |-> FALSE, escape_next |-> FALSE, in_array |-> FALSE]),
         LAMBDA st : IF st.current # <<>>
                     THEN Append(st.values, parse_value(st.current))
                     ELSE st.values)

\* the texts the geometry library reads as a geometry, with the hexadecimal
\* well-known binary it gives for each
WktPoint == <<"P", "O", "I", "N", "T", "(", "1", " ", "2", ")">>
WkbHex == <<"0", "1", "0", "1">>
\* _parse_geometry(value): the decode expression of the geometry, <<>> for
\* None
parse_geometry(value) ==
    IF strip(value) = WktPoint THEN <<"d", "e", "c", "o", "d", "e", "(", "'">> \o WkbHex \o <<"'", ",", " ", "'", "h", "e", "x", "'", ")">> ELSE <<>>

DefaultSrid == <<"4", "3", "2", "6">>

\* the columns of the table of the job: name and geometry hint
InsertColumn(name, geometry) == [name |-> name, geometry |-> geometry]
InsertTables ==
    {<<InsertColumn("a", FALSE), InsertColumn("b", FALSE)>>,
     <<InsertColumn("a", FALSE), InsertColumn("g", TRUE)>>,
     <<InsertColumn("g", TRUE), InsertColumn("b", FALSE)>>}

\* the literals the insert-values writer puts into a file: a number, NULL,
\* and texts, as E'...' with quotes escaped by a backslash
NumberLiteral == <<"1">>
TextLiteral(content) == <<"E", "'">> \o content \o <<"'">>
TextContents ==
    {<<"a">>, <<"a", ",", "b">>, <<"a", ")">>, <<"(", "a">>, <<"[", "a">>, <<"a", "]">>, <<"N", "U", "L", "L">>, <<"S", "T", "_", "a">>, <<"a", "\\", "'", "b">>}
Literals ==
    {NumberLiteral, SqlNullText, TextLiteral(WktPoint)}
        \cup {TextLiteral(c) : c \in TextContents}

\* the records of a file: the first of any two literals, the following ones
\* of a text and NULL
FirstRecords == {<<x, y>> : x \in Literals, y \in Literals}
FollowingRecords == {<<TextLiteral(<<"a">>), SqlNullText>>}
MaxRecords == 2
InsertRecords ==
    {<<r>> \o rest : r \in FirstRecords, rest \in SeqsUpTo(FollowingRecords, MaxRecords - 1)}

\* the fragments the base job hands over for the records: the INSERT line,
\* the VALUES line and the values
ValuesLine == <<"V", "A", "L", "U", "E", "S", "\n">>
InsertLine == <<"I", "N", "S", "E", "R", "T", " ", "I", "N", "T", "O", " ", "t", "(", "a", ",", "b", ")", "\n">>
WrittenRecord(record) == <<"(">> \o join(<<",">>, record) \o <<")">>
ValuesFragment(records) ==
    join(<<",", "\n">>, [k \in DOMAIN records |-> WrittenRecord(records[k])]) \o <<";">>
Fragments(records) == <<InsertLine, ValuesLine, ValuesFragment(records)>>

\* the datum the statement carries for the parsed value of a column
ProcessedDatum(column, column_value) ==
    With(IF column.geometry THEN parse_geometry(strip(column_value)) ELSE <<>>,
         LAMBDA geom_value :
            With(IF geom_value # <<>>
                 THEN <<"S", "T", "_", "S", "e", "t", "S", "R", "I", "D", "(", "S", "T", "_", "G", "e", "o", "m", "F", "r", "o", "m", "W", "K", "B", "(">> \o geom_value \o <<")", ",", " ">>
                         \o DefaultSrid \o <<")">>
                 ELSE column_value,
                 LAMBDA coerced :
                    IF ~StartsWith(coerced, <<"S", "T", "_">>) /\ coerced # SqlNullText
                    THEN <<"'">> \o coerced \o <<"'">>
                    ELSE coerced))

\* the records of a fragment of values, the datums of each, and, when every
\* record has a datum per column, the datums the statement carries
SplitValues(columns, fragment) ==
    With(split_fragment_to_records(fragment), LAMBDA processed_fragment_records :
        With([k \in DOMAIN processed_fragment_records |->
                 split_record_to_datums(processed_fragment_records[k])],
             LAMBDA datums :
                [records |-> processed_fragment_records,
                 datums |-> datums,
                 status |-> IF \E k \in DOMAIN datums : Len(columns) # Len(datums[k])
                            THEN "AssertionError" ELSE "ok"]))

\* the values fragment _insert gives for a fragment of values
ProcessValues(columns, fragment) ==
    With(SplitValues(columns, fragment), LAMBDA split :
        IF split.status # "ok"
        THEN [status |-> split.status, records |-> split.records,
              datums |-> split.datums, processed |-> <<>>, fragment |-> <<>>]
        ELSE With([k \in DOMAIN split.datums |->
                      [i \in 1..Len(columns) |->
                          ProcessedDatum(columns[i], split.datums[k][i])]],
                  LAMBDA processed :
                     [status |-> "ok", records |-> split.records,
                      datums |-> split.datums, processed |-> processed,
                      fragment |->
                          join(<<",", "\n">>, [k \in DOMAIN processed |-> WrittenRecord(processed[k])])
                              \o <<";">>]))

\* a fragment _insert hands on as it is
IsPassed(fragment) ==
    \/ fragment = ValuesLine
    \/ StartsWith(upper(strip(fragment)), <<"I", "N", "S", "E", "R", "T", " ", "I", "N", "T", "O", " ">>)

\* _insert on the fragments of one statement: the VALUES line and the INSERT
\* line pass, the values are processed
geometry_insert(columns, fragments) ==
    With(ProcessValues(columns, fragments[CHOOSE k \in DOMAIN fragments :
                                             ~IsPassed(fragments[k])]),
         LAMBDA out :
            [status |-> out.status, records |-> out.records, datums |-> out.datums,
             processed |-> out.processed,
             processed_fragments |->
                 IF out.status = "ok"
                 THEN [k \in DOMAIN fragments |->
                          IF IsPassed(fragments[k]) THEN fragments[k] ELSE out.fragment]
                 ELSE <<>>])

GeometryInsertInit ==
    /\ OnlyPgCall
    /\ \E columns \in InsertTables, records \in InsertRecords :
          pj = [op |-> "_insert", status |-> "called", columns |-> columns,
                written |-> records, fragments |-> Fragments(records),
                records |-> <<>>, datums |-> <<>>, processed |-> <<>>,
                processed_fragments |-> <<>>]

\* the job builds its statement
RunGeometryInsert ==
    /\ pj.op = "_insert"
    /\ pj.status = "called"
    /\ \E out \in {geometry_insert(pj.columns, pj.fragments)} :
          pj' = [pj EXCEPT !.status = out.status, !.records = out.records,
                           !.datums = out.datums, !.processed = out.processed,
                           !.processed_fragments = out.processed_fragments]
    /\ UNCHANGED <<tmVars, db, merge_build, ldVars, pgVars, orVars, scVars, stVars, wrVars, sgVars, fu>>

GeometryInsertNext == RunGeometryInsert

SpecGeometryInsert == GeometryInsertInit /\ [][GeometryInsertNext]_vars

(***************************************************************************)
(* Properties of SpecLoad                                                  *)
(***************************************************************************)

\* the rows the target table held before the job (none when it was absent)
BaseRows == ld_old.rows
LoadBatchKeys == Keys(LoadRecords, id_field_name)
DistinctKeys(records, on) ==
    \A i, j \in DOMAIN records : records[i][on] = records[j][on] => i = j
\* the stored rows whose key is not a key of the batch
NotInBatch(rows) ==
    SelectSeq(rows, LAMBDA r : r[id_field_name] \notin LoadBatchKeys)

RECURSIVE Repeat(_, _)
\* n copies of a sequence, one after the other
Repeat(seq, n) == IF n = 0 THEN <<>> ELSE seq \o Repeat(seq, n - 1)

C9_RerunAsOnce ==
    (ld_job.write_disposition \in {"append", "replace"} /\ ld_job.applied >= 2) =>
        db[LoadTarget] = ld_first

\* C9 (amended): re-running the identical job leaves the table as one run
\* leaves it for replace (the table holds the batch, however often the write
\* was applied) and, for append, only when the earlier run failed before its
\* write was applied; every applied append write adds the batch once more.
C9_RerunSafeForReplace ==
    /\ (ld_job.write_disposition = "replace" /\ ld_job.applied >= 1) =>
          /\ db[LoadTarget].rows = LoadRecords
          /\ db[LoadTarget] = ld_first
    /\ ld_job.write_disposition \in {"append", "skip"} =>
          db[LoadTarget].rows = BaseRows \o Repeat(LoadRecords, ld_job.applied)

\* a replace job with a batch of rows has been applied twice to a table that
\* held other rows
C9_Witness ==
    /\ ld_job.write_disposition = "replace"
    /\ ld_job.applied = 2
    /\ ld_job.file # <<>>
    /\ ld_old.rows # <<>>
    /\ Range(ld_old.rows) \cap Range(LoadRecords) = {}

(***************************************************************************)
(* Properties of SpecReplace                                               *)
(***************************************************************************)

RootBatchIds == Keys(or_files[PathOf(ItemsTable)].rows, "_dlt_id")
StoredRows(d, table_name) == d[make_qualified_table_name(table_name)].rows

\* C4: once the orphan-removal job has run on a lineage of one root batch file
\* and child batch files, the root table holds exactly the rows it held whose
\* _dlt_id is in the root batch, and the child table holds no row whose
\* _dlt_parent_id is absent from the _dlt_id values of the root batch.
C4_OrphansRemoved ==
    (or_job.state = "completed" /\ PathOf(ItemsTable) \in Range(or_job.references)) =>
        /\ \A i \in DOMAIN StoredRows(db, ItemsTable) :
              StoredRows(db, ItemsTable)[i]["_dlt_id"] \in RootBatchIds
        /\ StoredRows(db, ItemsTable) =
              SelectSeq(StoredRows(or_old, ItemsTable),
                        LAMBDA r : r["_dlt_id"] \in RootBatchIds)
        /\ PathOf(SubTable) \in Range(or_job.references) =>
              \A i \in DOMAIN StoredRows(db, SubTable) :
                  StoredRows(db, SubTable)[i]["_dlt_parent_id"] \in RootBatchIds

\* the job has run on root and child file; the root table held a row that is
\* not in the root batch and the child table a child of that row
C4_Witness ==
    /\ or_job.state = "completed"
    /\ or_job.references = <<PathOf(ItemsTable), PathOf(SubTable)>>
    /\ RootBatchIds = {"r1"}
    /\ \E i \in DOMAIN StoredRows(or_old, ItemsTable) :
          StoredRows(or_old, ItemsTable)[i]["_dlt_id"] = "r2"
    /\ \E i \in DOMAIN StoredRows(or_old, SubTable) :
          StoredRows(or_old, SubTable)[i]["_dlt_parent_id"] = "r2"
    /\ Len(StoredRows(db, ItemsTable)) = 1

\* C17: when the orphan-removal job meets a child table whose parent batch
\* file is not among its references, the job ends in the terminal
\* (non-retryable) state and no row of a table of the lineage has been deleted
\* by it.
C17_MissingParentIsTerminal ==
    or_job.status = "StopIteration" =>
        /\ or_job.state = "terminal_failed"
        /\ \A t \in DataTableNames :
              Keys(StoredRows(or_old, t), "_dlt_id") \subseteq
                  Keys(StoredRows(db, t), "_dlt_id")

\* C25: after the orphan-removal job has run on a lineage of the root batch
\* file and the batch file of the child table, every row of the child table
\* whose _dlt_parent_id is the _dlt_id of a row of the root batch is still
\* stored with the values it had; only descendants of removed root rows are
\* deleted.
C25_SurvivingParentsKeepChildren ==
    (/\ or_job.state = "completed"
     /\ or_job.references = <<PathOf(ItemsTable), PathOf(SubTable)>>) =>
        \A r \in Range(StoredRows(or_old, SubTable)) :
            r["_dlt_parent_id"] \in RootBatchIds
                => r \in Range(StoredRows(db, SubTable))

\* the root table of the chain of a table
RootOf(table_name) ==
    IF ParentOf(table_name) = <<NoneStr>> THEN table_name
    ELSE IF ParentOf(ParentOf(table_name)) = <<NoneStr>> THEN ParentOf(table_name)
    ELSE ParentOf(ParentOf(table_name))

\* C26: the orphan-removal job prunes a table without parent on _dlt_id with
\* its own batch file as payload, and every table with a parent, child or
\* grandchild, on _dlt_parent_id with the batch file of the root table of its
\* chain as payload.
C26_LineagePayloadSelection ==
    \A i \in DOMAIN or_job.writes :
        LET w == or_job.writes[i]
        IN  IF ParentOf(w.table_name) = <<NoneStr>>
            THEN w.id_field_name = "_dlt_id" /\ w.file_path = PathOf(w.table_name)
            ELSE /\ w.id_field_name = "_dlt_parent_id"
                 /\ w.file_path = PathOf(RootOf(w.table_name))

\* the fields of the target's batch schema the payload file lacks
SchemaDifferenceOf(w) ==
    or_files[PathOf(w.table_name)].fields \ or_files[w.file_path].fields

C30_OneWritePerJobRun ==
    or_job.state = "completed" => Len(or_job.writes) = 1

(***************************************************************************)
(* Properties of SpecState                                                 *)
(***************************************************************************)

\* the state rows of a pipeline whose load id has a loads row with status 0
CompletedStateRows(d, pipeline_name) ==
    {r \in Range(StoredRows(d, state_table_name)) :
        /\ r.pipeline_name = pipeline_name
        /\ \E l \in Range(StoredRows(d, loads_table_name)) :
              l.status = "0" /\ l.load_id = r["_dlt_load_id"]}

\* the call returned the completed state row with the greatest load id, and
\* None when there is no completed state row
ReturnedLatestCompleted(d, seen) ==
    LET completed == CompletedStateRows(d, seen.pipeline_name)
    IN  /\ seen.status = "ok"
        /\ IF completed = {} THEN seen.info = <<>>
           ELSE /\ Len(seen.info) = 1
                /\ seen.info[1] \in completed
                /\ \A o \in completed :
                      LoadIdRank(o["_dlt_load_id"])
                          <= LoadIdRank(seen.info[1]["_dlt_load_id"])

\* C8 as stated: in every reachable state get_stored_state(p) returns the
\* state row of p with the greatest load id among the rows whose load has a
\* loads row with status 0, never the row of a load not completed, and None
\* when there is no such row.
C8_LatestCompletedState ==
    [][st_seen' # st_seen => ReturnedLatestCompleted(db, st_seen')]_vars

\* C8, amended: the same, in every state in which the state table and the
\* loads table exist.
C8_LatestCompletedStateOfExistingTables ==
    [][(/\ st_seen' # st_seen
        /\ table_exists(db, make_qualified_table_name(state_table_name))
        /\ table_exists(db, make_qualified_table_name(loads_table_name)))
       => ReturnedLatestCompleted(db, st_seen')]_vars

\* the call returned the state of load 1 while the state row of the later
\* load 2, not completed, is stored
C8_Witness ==
    /\ st_seen.status = "ok"
    /\ st_seen.info = <<StateRow("p", "1")>>
    /\ StoredRows(db, state_table_name) = <<StateRow("p", "1"), StateRow("p", "2")>>
    /\ StoredRows(db, loads_table_name) # <<>>
    /\ \A l \in Range(StoredRows(db, loads_table_name)) : l.load_id = "1"

(***************************************************************************)
(* Properties of SpecSchema                                                *)
(***************************************************************************)

\* the schema records stored for a hash
RecordsOfHash(d, h) == SelectSeq(VersionRows(d), LAMBDA r : r.version_hash = h)

\* C1: when update_stored_schema is called twice in a row with the same
\* logical schema (same version_hash) and the first call completes, the second
\* call finds the hash through get_stored_schema_by_hash, changes no table and
\* writes no record; the version table holds exactly one record for the hash
\* when the first call was the upgrade that wrote it.
C1_SecondUpdateIsNoOp ==
    (/\ Len(ss_calls) = 2
     /\ ss_calls[1].hash = ss_calls[2].hash
     /\ ss_calls[1].status = "ok") =>
        /\ ss_calls[2].found
        /\ ss_calls[2].status = "ok"
        /\ ~ss_calls[2].changed
        /\ RecordsOfHash(db, ss_calls[2].hash) # <<>>
        /\ ~ss_calls[1].found => Len(RecordsOfHash(db, ss_calls[2].hash)) = 1

\* two calls in a row for one hash: the first wrote the record, the second
\* found it
C1_Witness ==
    /\ Len(ss_calls) = 2
    /\ ss_calls[1].hash = ss_calls[2].hash
    /\ ss_calls[1].status = "ok"
    /\ ~ss_calls[1].found
    /\ ss_calls[2].found
    /\ ss_calls[2].status = "ok"
    /\ Len(VersionRows(db)) = 2

StoredItemsTable == db[make_qualified_table_name(ItemsTable)]
LastCall == ss_calls[Len(ss_calls)]

\* the last call ran the schema update on the items table, which was stored
\* with the columns a and b, while the logical table has a, b and c, and the
\* storage raised no error
ExtendedItems ==
    /\ ss_calls # <<>>
    /\ ~LastCall.found
    /\ LastCall.clean
    /\ LastCall.items_in_scope
    /\ LastCall.items_before.exists
    /\ FieldNames(Range(LastCall.items_before.fields)) = {id_field_name, "a", "b"}
    /\ schema.items = 2

\* C2: when the items table is stored with the columns a and b and the logical
\* table has the columns a, b and c, the schema update leaves the stored table
\* with exactly a, b and c (next to its id column); a and b keep their native
\* type and every row keeps its values of a and b; c is nullable whatever the
\* logical column declares, has the native type of its logical type, and is
\* NULL in every row.
C2_AdditiveColumn ==
    ExtendedItems =>
        LET before == LastCall.items_before
            after == StoredItemsTable
        IN  /\ Len(after.fields) = 4
            /\ FieldNames(Range(after.fields)) = {id_field_name, "a", "b", "c"}
            /\ \A i \in DOMAIN before.fields : after.fields[i] = before.fields[i]
            /\ after.fields[4] =
                  Field("c", to_db_type(tm_caps, ColumnType(schema.c_type, None, None)), TRUE)
            /\ Len(after.rows) = Len(before.rows)
            /\ \A k \in DOMAIN before.rows :
                  /\ \A c \in DOMAIN before.rows[k] : after.rows[k][c] = before.rows[k][c]
                  /\ after.rows[k]["c"] = Null

\* a table holding a row was extended by a column declared not nullable
C2_Witness ==
    /\ ExtendedItems
    /\ ~schema.c_nullable
    /\ LastCall.items_before.rows # <<>>
    /\ Len(StoredItemsTable.fields) = 4
    /\ StoredItemsTable.rows[1]["a"] = "a1"

\* the stored row is one of the candidates and none of them is newer
IsLatestOf(info, candidates) ==
    IF candidates = <<>> THEN info = <<>>
    ELSE /\ Len(info) = 1
         /\ info[1] \in Range(candidates)
         /\ \A o \in Range(candidates) :
               TimeRank(o.inserted_at) <= TimeRank(info[1].inserted_at)

\* C5: once schema records have been inserted, get_stored_schema returns the
\* record with the greatest inserted_at among the records whose schema_name is
\* the client's schema name, whatever their hash, and
\* get_stored_schema_by_hash(h) returns the record with the greatest
\* inserted_at among the records whose version_hash is h.
C5_LatestWins ==
    table_exists(db, make_qualified_table_name(version_table_name)) =>
        /\ get_stored_schema(db, schema).status = "ok"
        /\ IsLatestOf(get_stored_schema(db, schema).info,
                      SelectSeq(VersionRows(db),
                                LAMBDA r : r.schema_name = schema.name))
        /\ \A s \in Schemas :
              /\ get_stored_schema_by_hash(db, version_hash(s)).status = "ok"
              /\ IsLatestOf(get_stored_schema_by_hash(db, version_hash(s)).info,
                            RecordsOfHash(db, version_hash(s)))

\* two records of one hash are stored, the older first; the lookup by hash and
\* the lookup by name return the newer one
C5_Witness ==
    /\ Len(VersionRows(db)) = 2
    /\ VersionRows(db)[1].version_hash = version_hash(schema)
    /\ VersionRows(db)[2].version_hash = version_hash(schema)
    /\ TimeRank(VersionRows(db)[1].inserted_at) < TimeRank(VersionRows(db)[2].inserted_at)
    /\ get_stored_schema_by_hash(db, version_hash(schema)).info = <<VersionRows(db)[2]>>
    /\ get_stored_schema(db, schema).info = <<VersionRows(db)[2]>>

\* the table keeps its fields, each at its place with its type and
\* nullability, and its rows, each at its place with every value
KeepsFieldsAndRows(old, new) ==
    /\ new.exists
    /\ Len(new.fields) >= Len(old.fields)
    /\ \A i \in DOMAIN old.fields : new.fields[i] = old.fields[i]
    /\ Len(new.rows) >= Len(old.rows)
    /\ \A k \in DOMAIN old.rows :
          \A c \in DOMAIN old.rows[k] :
              c \in DOMAIN new.rows[k] /\ new.rows[k][c] = old.rows[k][c]

C15_SchemaRecordWrittenLast ==
    (ss_calls # <<>> /\ ~LastCall.found) =>
        /\ (LastCall.clean /\ LastCall.status = "ok")
              => Len(RecordsOfHash(db, LastCall.hash)) = 1
        /\ ~LastCall.clean => RecordsOfHash(db, LastCall.hash) = <<>>

(***************************************************************************)
(* Properties of SpecUpgrade                                               *)
(***************************************************************************)

\* the last call was an upgrade (its hash was not stored) that ended well
Upgraded ==
    /\ ss_calls # <<>>
    /\ ~ss_calls[1].found
    /\ ss_calls[1].status = "ok"

\* the table stands in storage with a field for every logical column, led by
\* the id field exactly when it is no bookkeeping table
CreatedInFull(table_name) ==
    LET table == db[make_qualified_table_name(table_name)]
        columns == get_table_columns(schema, table_name)
        names == [i \in DOMAIN table.fields |-> table.fields[i].name]
    IN  /\ table.exists
        /\ names = (IF table_name \in dlt_table_names THEN <<>>
                    ELSE <<id_field_name>>)
                   \o [i \in DOMAIN columns |-> columns[i].name]
        /\ \A i \in DOMAIN names : names[i] # vector_field_name

\* C28: after a schema upgrade every logical table in the scope of the call
\* that did not exist before it exists, with a field for every logical column,
\* whether or not the table declares a column; the id field is in the created
\* table exactly when it is no bookkeeping table, and no vector field is.
C28_AbsentTablesAreCreated ==
    Upgraded =>
        \A t \in Range(ScopeOf(schema, ss_calls[1].only_tables)) :
            ~ss_calls[1].before[make_qualified_table_name(t)].exists
                => CreatedInFull(t)

\* the last call found the store out of reach when it introspected a table
Unreached ==
    /\ ss_calls # <<>>
    /\ ss_calls[1].unreachable # Reachable

\* the tables of the scope of the last call from the unreached one on
FromUnreached ==
    LET scope == ScopeOf(schema, ss_calls[1].only_tables)
        k == CHOOSE i \in DOMAIN scope : scope[i] = ss_calls[1].unreachable
    IN  {scope[i] : i \in k..Len(scope)}

\* the call ended with the retryable error, left the unreached table and the
\* tables after it as they were, and wrote no schema record
TransientPropagates ==
    /\ ss_calls[1].status = "DestinationTransientException"
    /\ \A t \in FromUnreached :
          db[make_qualified_table_name(t)] =
              ss_calls[1].before[make_qualified_table_name(t)]
    /\ VersionRows(db) = VersionRows(ss_calls[1].before)

\* C29 as stated: when the store cannot be reached at the introspection of a
\* table, the call ends with the retryable error, does not take the table for
\* an absent one, creates no table at all and writes no schema record.
C29_UnreachableStoreIsRetryable ==
    Unreached =>
        /\ TransientPropagates
        /\ \A q \in DOMAIN db : db[q].exists => ss_calls[1].before[q].exists

\* C29, amended: when the store cannot be reached at the introspection of a
\* table, the call ends with the retryable error, the unreached table and the
\* tables the call had not visited yet are as they were (none of them is
\* created), and no schema record is written; the tables the call visited
\* before stay created.
C29_UnreachableStoreIsRetryableFromThere ==
    Unreached => TransientPropagates

\* the store was out of reach at the loads table, which did not exist, after
\* the call had created the version table
C29_Witness ==
    /\ Unreached
    /\ ss_calls[1].unreachable = loads_table_name
    /\ ~db[make_qualified_table_name(loads_table_name)].exists
    /\ db[make_qualified_table_name(version_table_name)].exists
    /\ ~ss_calls[1].before[make_qualified_table_name(version_table_name)].exists
    /\ ss_calls[1].status = "DestinationTransientException"

\* the table stands in storage and holds a field for every column the schema
\* s declares for it
HoldsEveryColumn(s, table_name) ==
    LET table == db[make_qualified_table_name(table_name)]
        columns == get_table_columns(s, table_name)
    IN  /\ table.exists
        /\ \A i \in DOMAIN columns :
              \E j \in DOMAIN table.fields : table.fields[j].name = columns[i].name

\* C35: whenever the version table holds a record with the hash of a schema,
\* every table of that schema that declares a column exists in storage with
\* every one of its logical columns, after any sequence of
\* update_stored_schema calls, with or without the only_tables filter.
C35_StoredHashImpliesCompleteSchema ==
    \A i \in DOMAIN VersionRows(db) :
        \A s \in UpgradeSchemas :
            version_hash(s) = VersionRows(db)[i].version_hash =>
                \A t \in Range(schema_tables(s)) :
                    get_table_columns(s, t) # <<>> => HoldsEveryColumn(s, t)

\* the tables whose existence or fields the last call changed
TablesChanged ==
    {t \in TableNames :
        LET q == make_qualified_table_name(t)
        IN  \/ db[q].exists # ss_calls[1].before[q].exists
            \/ db[q].fields # ss_calls[1].before[q].fields}

\* C38: the value a call of update_stored_schema returns names the tables the
\* call created or extended, so that it is empty exactly when the call left
\* the existence and the fields of every table as they were.
C38_ReturnDescribesAppliedUpdate ==
    (ss_calls # <<>> /\ ss_calls[1].status = "ok") =>
        ss_calls[1].returned = TablesChanged

(***************************************************************************)
(* Properties of SpecWrite                                                 *)
(***************************************************************************)

C12_MergeWithoutIdIsTerminal ==
    (/\ wr.pc = "done"
     /\ wr.table.exists
     /\ wr.write_disposition = "merge"
     /\ wr.id_field_name \in {NoneStr, ""}) =>
        /\ wr.status = "DestinationTerminalException"
        /\ wr.job_state = "terminal_failed"
        /\ wr.after = wr.table

\* C18: write_records with disposition merge and remove_orphans deletes
\* exactly the stored rows whose key is not a key of the payload; the rows
\* that stay keep every stored value and their order, the schema stays, and
\* no payload row is inserted.
C18_OrphanRemovalOnlyDeletes ==
    (/\ wr.pc = "done"
     /\ wr.table.exists
     /\ wr.write_disposition = "merge"
     /\ wr.remove_orphans
     /\ wr.id_field_name = id_field_name) =>
        /\ wr.status = "ok"
        /\ wr.after.fields = wr.table.fields
        /\ wr.after.rows =
              SelectSeq(wr.table.rows,
                        LAMBDA r : \E i \in DOMAIN wr.records :
                                      wr.records[i][id_field_name] = r[id_field_name])

\* two rows are stored; the payload holds the key of the first with another
\* value; the second row is deleted and the first keeps its stored value
C18_Witness ==
    /\ wr.pc = "done"
    /\ wr.write_disposition = "merge"
    /\ wr.remove_orphans
    /\ wr.id_field_name = id_field_name
    /\ Len(wr.table.rows) = 2
    /\ Len(wr.records) = 1
    /\ wr.records[1].pk = wr.table.rows[1].pk
    /\ wr.records[1].val # wr.table.rows[1].val
    /\ wr.table.rows[2].pk # wr.table.rows[1].pk
    /\ wr.after.rows = <<wr.table.rows[1]>>

\* C31: a job run around a write_records call ends in exactly one of
\* completed, retryable_failed and terminal_failed; it ends in
\* retryable_failed when the table cannot be opened, and in terminal_failed
\* when, on a table that can be opened, the disposition is unsupported or the
\* disposition is merge and no id field is given.
C31_OutcomeFollowsErrorClass ==
    wr.pc = "done" =>
        /\ wr.job_state \in {"completed", "retryable_failed", "terminal_failed"}
        /\ ~wr.table.exists => wr.job_state = "retryable_failed"
        /\ (/\ wr.table.exists
            /\ \/ wr.write_disposition \notin SupportedDispositions
               \/ /\ wr.write_disposition = "merge"
                  /\ wr.id_field_name \in {NoneStr, ""})
              => wr.job_state = "terminal_failed"

(***************************************************************************)
(* Properties of SpecBookkeeping                                           *)
(***************************************************************************)

\* the write added exactly one row after the rows the table held, and left
\* each of those as it was
AddedOneRow(before, after) ==
    /\ after.exists
    /\ Len(after.rows) = Len(before.rows) + 1
    /\ \A k \in DOMAIN before.rows : after.rows[k] = before.rows[k]

\* C14 (as stated): every update_schema_in_storage call adds exactly one row
\* to the version table and every complete_load call exactly one row to the
\* loads table, and neither modifies or deletes a stored row, whatever write
\* disposition the schema declares for the bookkeeping table.
C14_BookkeepingAppendOnly ==
    wr.pc = "done" => AddedOneRow(wr.table, wr.after)

\* C14 (amended): the same for a bookkeeping table that exists and is declared
\* with the disposition skip or append.
C14_BookkeepingAppendOnlyWhenAppended ==
    (/\ wr.pc = "done"
     /\ wr.table.exists
     /\ wr.write_disposition \in {"append", "skip"})
        => AddedOneRow(wr.table, wr.after)

\* a write to a bookkeeping table that already held a row
C14_Witness ==
    /\ wr.pc = "done"
    /\ wr.write_disposition = "skip"
    /\ wr.table.exists
    /\ wr.table.rows # <<>>
    /\ Len(wr.after.rows) = 2

(***************************************************************************)
(* Properties of SpecStorage                                               *)
(***************************************************************************)

\* the initialized test answers whether the sentinel table exists; an
\* initialization succeeds and creates the sentinel table exactly when it was
\* not there; the sentinel table never holds a field or a row
SentinelMarksInitialization ==
    /\ sg.op = "is_storage_initialized" => sg.result = sg.before
    /\ sg.op = "initialize_storage" =>
          /\ sg.status = "ok"
          /\ sg.created = ~sg.before
          /\ table_exists(db, sentinel_table)
    /\ table_exists(db, sentinel_table) => db[sentinel_table] = Table(<<>>, <<>>)

\* a step that removes or changes the sentinel table is a drop_storage call
OnlyDropStorageRemovesSentinel ==
    (table_exists(db, sentinel_table) /\ db'[sentinel_table] # db[sentinel_table])
        => sg'.op = "drop_storage"

\* C16: is_storage_initialized is true exactly when the sentinel table exists;
\* initialize_storage creates the sentinel table only when it is absent, so
\* that any number of calls creates it once and each of them succeeds; no
\* operation other than drop_storage removes the sentinel table or writes a
\* row to it.
C16_SentinelMarksInitialization ==
    /\ []SentinelMarksInitialization
    /\ [][OnlyDropStorageRemovesSentinel]_vars

\* an initialization of an initialized dataset that holds a stored table
C16_Witness ==
    /\ sg.op = "initialize_storage"
    /\ sg.before
    /\ ~sg.created
    /\ sg.status = "ok"
    /\ table_exists(db, sentinel_table)
    /\ table_exists(db, make_qualified_table_name(ItemsTable))

Truncated(d, truncate_tables) ==
    {q \in DOMAIN d : /\ table_exists(d, q)
                      /\ \E t \in truncate_tables : q = make_qualified_table_name(t)}

\* C37: initialize_storage(truncate_tables) on initialized storage succeeds
\* and leaves each listed table that exists with no rows and the fields it
\* had, and every other table, listed and absent, not listed, or the sentinel,
\* as it was.
C37_TruncationKeepsSchema ==
    [][\A t \in TruncateTables :
          (InitializeStorage(t) /\ is_storage_initialized(db)) =>
              /\ sg'.status = "ok"
              /\ \A q \in DOMAIN db :
                    IF q \in Truncated(db, t)
                    THEN db'[q] = Table(db[q].fields, <<>>)
                    ELSE db'[q] = db[q]]_vars

\* a truncation has emptied the version table, which holds a record from the
\* moment it is created, and the items table, next to the loads table, which
\* was not listed
C37_Witness ==
    /\ sg.op = "initialize_storage"
    /\ sg.before
    /\ db[make_qualified_table_name(version_table_name)].exists
    /\ db[make_qualified_table_name(version_table_name)].rows = <<>>
    /\ db[make_qualified_table_name(version_table_name)].fields # <<>>
    /\ db[make_qualified_table_name(ItemsTable)].exists
    /\ db[make_qualified_table_name(ItemsTable)].fields # <<>>
    /\ db[make_qualified_table_name(ItemsTable)].rows = <<>>
    /\ db[make_qualified_table_name(loads_table_name)].exists

(***************************************************************************)
(* Properties of SpecLookups                                               *)
(***************************************************************************)

\* C19 (as stated): get_stored_schema and get_stored_schema_by_hash return
\* None when no row of the version table matches, an empty version table
\* included, and get_stored_state returns None when no completed state row
\* matches; none of them raises in that case.
C19_AbsenceIsAValue ==
    (lk.op # "none" /\ lk.matches = 0) => (lk.status = "ok" /\ lk.info = <<>>)

\* C19 (amended): the same, when the tables the lookup opens exist.
C19_AbsenceIsAValueInExistingTables ==
    (lk.op # "none" /\ lk.matches = 0 /\ lk.opened)
        => (lk.status = "ok" /\ lk.info = <<>>)

\* the newest schema of a name was asked for while the version table held
\* records of another name only
C19_Witness ==
    /\ lk.op = "get_stored_schema"
    /\ lk.key = schema.name
    /\ lk.opened
    /\ lk.matches = 0
    /\ lk.info = <<>>
    /\ VersionRows(db) # <<>>

(***************************************************************************)
(* Properties of SpecRelation                                              *)
(***************************************************************************)

\* C20: limit, head and select on a relation built from a provided SQL query
\* each raise ReadableRelationHasQueryException and return no new relation;
\* the relation keeps its query, limit and selected columns.
C20_QueryRelationCannotBeModified ==
    (rel.op \in {"limit", "head", "select"} /\ rel.self.provided_query # "") =>
        /\ rel.status = "ReadableRelationHasQueryException"
        /\ rel.result = NoRelation
        /\ query(rel.self) = rel.self.provided_query
        /\ rel.self.limit = None
        /\ rel.self.selected_columns = <<>>

\* the normalized names of a selection
NormalizedSelection(selected_columns) ==
    {normalize_identifier(selected_columns[i]) : i \in DOMAIN selected_columns}

\* the last call was select, with the columns the result or the failure shows,
\* on a table relation
SelectedOnTable == rel.op = "select" /\ rel.self.provided_query = ""

\* C21: on a relation with schema columns, select(cols) raises
\* ReadableRelationUnknownColumnException when a normalized name of cols is
\* not a schema column, and otherwise computed_schema_columns of the result
\* holds exactly the selected columns; on a relation without schema columns,
\* computed_schema_columns is None and any columns may be selected.
C21_SelectionCheckedAgainstSchema ==
    SelectedOnTable =>
        /\ (rel.self.schema_columns # {} /\ rel.status # "ok") =>
              /\ rel.status = "ReadableRelationUnknownColumnException"
              /\ rel.result = NoRelation
        /\ (rel.self.schema_columns # {} /\ rel.status = "ok"
                /\ rel.result.selected_columns # <<>>) =>
              /\ NormalizedSelection(rel.result.selected_columns)
                    \subseteq rel.self.schema_columns
              /\ computed_schema_columns(rel.result, rel.assertions).columns
                    = NormalizedSelection(rel.result.selected_columns)
        /\ rel.self.schema_columns = {} =>
              /\ rel.status = "ok"
              /\ computed_schema_columns(rel.result, rel.assertions).none

\* the relation a call returned differs from its receiver in the one setting
\* the call was made for
ResultIsCopyWith ==
    /\ (rel.op = "limit" /\ rel.status = "ok") =>
          rel.result = [rel.self EXCEPT !.limit = rel.arg_limit]
    /\ (rel.op = "head" /\ rel.status = "ok") =>
          rel.result = [rel.self EXCEPT !.limit = 5]
    /\ (rel.op = "select" /\ rel.status = "ok") =>
          rel.result = [rel.self EXCEPT !.selected_columns = rel.arg_columns]

\* C22: limit and select return a relation that shares table name, schema
\* and the untouched settings with the receiver and leave the receiver's
\* limit and selected columns as they were; in a chain of limit calls the
\* result carries the last limit.
C22_CopyOnWrite ==
    /\ []ResultIsCopyWith
    /\ [][rel'.op # "none" => rel'.self = rel.self]_vars

\* a limit set on a relation that came out of a chain with another limit and
\* a selection
C22_Witness ==
    /\ rel.op = "limit"
    /\ rel.status = "ok"
    /\ rel.self.limit \notin {None, rel.arg_limit}
    /\ rel.self.selected_columns # <<>>
    /\ rel.result.limit = rel.arg_limit
    /\ rel.result.selected_columns = rel.self.selected_columns

\* the selector the query of a selection is to carry
ExpectedSelector(selected_columns) ==
    CASE selected_columns = <<>> -> "*"
      [] selected_columns = <<"a">> -> "\"a\""
      [] selected_columns = <<"A", "b">> -> "\"a\",\"b\""
      [] selected_columns = <<"b", "a">> -> "\"b\",\"a\""
      [] OTHER -> "\"unknown_columns\""

\* the query of a table relation with the LIMIT clause of the limit last set
ExpectedQuery(r) ==
    "SELECT " \o ExpectedSelector(r.selected_columns)
        \o " FROM \"pipeline_dataset\".\"my_table\" "
        \o (IF r.limit = None THEN "" ELSE "LIMIT " \o ToString(r.limit))

\* C23: the query of a table relation selects from the qualified table name,
\* with * or the normalized, escaped selected columns in selection order, and
\* ends with LIMIT n for whatever integer n was last set with limit(n) (5 for
\* head()); it has no LIMIT clause only when no limit was ever set.
C23_QueryOfTableRelation ==
    (rel.status = "ok" /\ rel.result.provided_query = "") =>
        query(rel.result) = ExpectedQuery(rel.result)

(***************************************************************************)
(* Properties of SpecFollowup                                              *)
(***************************************************************************)

\* the place of a file's table in the chain
ChainIndex(path) ==
    CHOOSE t \in DOMAIN fu.table_chain :
        ParsedTableName(path) = fu.table_chain[t].name

\* the call ended; a request was made exactly for a merged root table, and its
\* reference lists each file of a completed job of the chain's tables once,
\* table by table in the order of the chain
ReferenceOfChain ==
    /\ fu.status = "ok"
    /\ fu.jobs # <<>> <=> fu.table_chain[1].write_disposition = "merge"
    /\ Len(fu.jobs) <= 1
    /\ \A r \in Range(fu.jobs) :
          /\ Range(r.references) =
                {f \in Range(fu.completed) :
                    \E t \in DOMAIN fu.table_chain :
                        ParsedTableName(f) = fu.table_chain[t].name}
          /\ \A i, j \in DOMAIN r.references :
                i < j => /\ r.references[i] # r.references[j]
                         /\ ChainIndex(r.references[i]) <= ChainIndex(r.references[j])

\* C32 as stated: a follow-up job is requested if and only if the root table
\* of the completed chain is merged; its reference lists the file of every
\* completed job of the chain's tables in the order of the chain's tables, and
\* its first entry is a batch file of the root table.
C32_LineageReferenceCreation ==
    fu.status \notin {"none", "called"} =>
        /\ ReferenceOfChain
        /\ \A r \in Range(fu.jobs) :
              ParsedTableName(r.references[1]) = fu.table_chain[1].name

\* C32, amended: the request is made if and only if the root table is merged,
\* and its reference lists the file of every completed job of the chain's
\* tables in the order of the chain's tables; its first entry is a batch file
\* of the root table when a job of the root table is among the completed ones.
C32_LineageReferenceCreationWithRootJob ==
    fu.status \notin {"none", "called"} =>
        /\ ReferenceOfChain
        /\ \A r \in Range(fu.jobs) :
              (\E f \in Range(fu.completed) :
                  ParsedTableName(f) = fu.table_chain[1].name)
                => ParsedTableName(r.references[1]) = fu.table_chain[1].name

\* a merged chain of three tables whose completed jobs were listed child
\* first: the reference lists the two root files in front of the child's
C32_Witness ==
    /\ fu.status = "ok"
    /\ Len(fu.table_chain) = 3
    /\ fu.completed = <<PathOf(SubTable), RootFile2, RootFile>>
    /\ fu.jobs # <<>>
    /\ fu.jobs[1].references = <<RootFile2, RootFile, PathOf(SubTable)>>

(***************************************************************************)
(* Properties of SpecCreateJob                                             *)
(***************************************************************************)

\* C33: for a table with at least one geometry-hinted column create_load_job
\* returns the geometry insert-values job for an insert_values file and raises
\* TerminalValueError, creating no job, for any other file; for a table
\* without geometry column it returns the job of the base client, or the CSV
\* copy job when the base client has none and the file is a csv file.
C33_GeometryOnlyThroughInsertValues ==
    (pj.op = "create_load_job" /\ pj.status # "called") =>
        LET format == pj.file_path[Len(pj.file_path)]
            geometry == \E c \in Range(pj.table.columns) : c.hint = "True"
        IN  IF geometry
            THEN IF format = "insert_values"
                 THEN /\ pj.status = "ok"
                      /\ pj.job = "PostgresInsertValuesWithGeometryTypesLoadJob"
                 ELSE /\ pj.status = "TerminalValueError"
                      /\ pj.job = NoneStr
            ELSE /\ pj.status = "ok"
                 /\ pj.job = CASE format = "insert_values" -> "InsertValuesLoadJob"
                               [] format = "sql" -> "SqlLoadJob"
                               [] format = "csv" -> "PostgresCsvCopyJob"
                               [] OTHER -> NoneStr

\* a csv file of a table with a geometry column was refused
C33_Witness ==
    /\ pj.op = "create_load_job"
    /\ pj.status = "TerminalValueError"
    /\ pj.file_path = <<"items", "csv">>
    /\ pj.table.columns[2].hint = "True"
    /\ pj.table.columns[1].hint = "False"
    /\ pj.job = NoneStr

(***************************************************************************)
(* Properties of SpecCsvCopy                                               *)
(***************************************************************************)

\* C34: the COPY is issued only when the validation of the first line has
\* passed; a headerless file whose first row has more values than the table
\* has columns, and a header that names a column the table does not have, fail
\* with DestinationInvalidFileFormat and copy no row; a headerless first row
\* of k values, k less than the number of columns, loads the first k columns
\* of the table and only them.
C34_CsvCopyValidatesBeforeItWrites ==
    (pj.op = "csv_copy" /\ pj.status # "called") =>
        LET k == Len(pj.first_line)
            n == Len(pj.columns)
            names == {pj.columns[i].name : i \in DOMAIN pj.columns}
            unknown == \E i \in DOMAIN pj.first_line :
                          StripQuotes(pj.first_line[i][1]) \notin names
        IN  /\ pj.issued => pj.status # "DestinationInvalidFileFormat"
            /\ ((~pj.include_header /\ k > n) \/ (pj.include_header /\ unknown))
                  => /\ pj.status = "DestinationInvalidFileFormat"
                     /\ ~pj.issued
                     /\ pj.copied = 0
            /\ (~pj.include_header /\ k < n)
                  => /\ pj.issued
                     /\ pj.headers = [i \in 1..k |-> escape_column_name(pj.columns[i].name)]


(***************************************************************************)
(* Properties of SpecRootFiles                                             *)
(***************************************************************************)
\* the _dlt_id values of the two batch files of the root table
RootFilesIds ==
    Keys(or_files[RootFile].rows, "_dlt_id") \cup Keys(or_files[RootFile2].rows, "_dlt_id")

\* C36: once the orphan-removal job has run on a lineage that lists two batch
\* files of the root table, the root table holds exactly the rows it held
\* whose _dlt_id is in one of the two files.
C36_RootRowsOfEveryFileSurvive ==
    (/\ or_job.state = "completed"
     /\ RootFile \in Range(or_job.references)
     /\ RootFile2 \in Range(or_job.references)) =>
        StoredRows(db, ItemsTable) =
            SelectSeq(StoredRows(or_old, ItemsTable),
                      LAMBDA r : r["_dlt_id"] \in RootFilesIds)


(***************************************************************************)
(* Properties of SpecGeometryInsert                                        *)
(***************************************************************************)
\* the job has built its statement, or failed
Inserted == pj.op = "_insert" /\ pj.status # "called"

\* C39: for a fragment of records of as many literals as the table has
\* columns, _split_fragment_to_records gives one record per written record
\* and _split_record_to_datums one datum per literal, the parsed value of that
\* literal, so that the assertion of _insert holds, whatever commas,
\* parentheses and square brackets the quoted literals contain.
C39_SplittingMatchesColumnCount ==
    Inserted =>
        /\ pj.status = "ok"
        /\ Len(pj.records) = Len(pj.written)
        /\ \A k \in DOMAIN pj.datums :
              /\ Len(pj.datums[k]) = Len(pj.columns)
              /\ \A i \in DOMAIN pj.datums[k] :
                    pj.datums[k][i] = parse_value(pj.written[k][i])

\* the SQL value of a literal: NULL, a text with its content, or a number
SqlValue(literal) ==
    IF literal = SqlNullText THEN [kind |-> "null", content |-> <<>>]
    ELSE IF StartsWith(literal, <<"E", "'">>) /\ EndsWith(literal, "'")
    THEN [kind |-> "text", content |-> SubSeq(literal, 3, Len(literal) - 1)]
    ELSE IF StartsWith(literal, <<"'">>) /\ EndsWith(literal, "'")
    THEN [kind |-> "text", content |-> SubSeq(literal, 2, Len(literal) - 1)]
    ELSE [kind |-> "number", content |-> literal]

\* C40: in the statement _insert gives, the datum of every column without
\* the geometry hint has the content of the written literal, is a quoted
\* text when the literal was one, whatever the text, and is NULL when the
\* literal was NULL.
C40_PlainValuesPassUnchanged ==
    (Inserted /\ pj.status = "ok") =>
        \A k \in DOMAIN pj.processed :
            \A i \in DOMAIN pj.columns :
                ~pj.columns[i].geometry =>
                    LET was == SqlValue(pj.written[k][i])
                        is == SqlValue(pj.processed[k][i])
                    IN  /\ is.content = was.content
                        /\ was.kind \in {"text", "null"} => is.kind = was.kind

=============================================================================
